---- MODULE Spec2Model ----
(***************************************************************************)
(* koifish: the lazy paginated QuerySet (model/queryset.py), its sparse    *)
(* page cache (cacher/) and the restriction containers                     *)
(* (model/restrictions/), as a state machine.                              *)
(*                                                                         *)
(* Indices and offsets are 0-based as in the Python source. A cache's data *)
(* is a function from the indices written so far to records.  An optional  *)
(* integer is an integer or a sentinel (NoneTC, Inf, NoneArg).             *)
(***************************************************************************)
EXTENDS Integers, Sequences, FiniteSets, TLC

\* ------------------------------------------------------------------------
\* Bounds of the model
\* ------------------------------------------------------------------------
MaxRecords == 4       \* the server holds 0..MaxRecords records
MaxSmallLimit == 2    \* request limits tried: 1..MaxSmallLimit and the default
MaxQS == 2            \* QuerySet objects alive at once
OverReport == 2       \* how much an over-reporting server adds to its total
MaxArg == 3           \* largest index / slice bound / offset passed by a caller
MaxIters == 1         \* iterator objects alive at once
MaxGens == 1          \* slice generators alive at once
MaxSharing == 2       \* iterators over one QuerySet advanced in turns
MaxExprLen == 3       \* longest sort expression tried, in characters
MaxPk == 3            \* primary key values in use: 1..MaxPk

\* ------------------------------------------------------------------------
\* Program constants
\* ------------------------------------------------------------------------
default_request_limit == 10   \* QuerySet.default_request_limit
PageStride == 10              \* the literal 10 in objs(): (c // request_limit) * 10
NoneTC == -1                  \* cache.total_count is None (BaseCache.__init__)
Inf == -2                     \* Inf = Decimal('Inf'): compares above every integer
NoneArg == -9                 \* an absent slice field (k.start / k.stop / k.step is None)

RequestLimits == (1..MaxSmallLimit) \cup {default_request_limit}
QSIds == 1..MaxQS
CacheRefs == 1..MaxQS
IterIds == 1..MaxIters
GenIds == 1..MaxGens

Range(s) == {s[j] : j \in DOMAIN s}
Min(a, b) == IF a < b THEN a ELSE b
Max(a, b) == IF a > b THEN a ELSE b

\* x < t for a count t that is a number or Inf (Decimal('Inf') > any int)
Below(x, t) == t = Inf \/ (t >= 0 /\ x < t)

VARIABLES
    srvN,            \* number of records the remote collection holds
    srvMode,         \* how the remote answers (see ReportedTotal, get_list)
    qsLive,          \* the QuerySet objects that exist
    filters,         \* q -> QuerySet._filters.data
    sorts,           \* q -> QuerySet._sorts.data
    request_limit,   \* q -> QuerySet._request_limit
    iterator_class,  \* q -> QuerySet._iterator_class
    cache,           \* q -> reference of QuerySet._cache (an object in the heap)
    heap,            \* allocated cache reference -> [data, total_count]
    iters,           \* iterator objects (BaseIterator instances)
    gens,            \* generator objects returned by qs[a:b:c]
    lastOp,          \* the most recent call: its name, receiver, outcome
    calls,           \* the record-fetch calls issued by the most recent call
    applied,         \* q -> the filter expressions applied so far to QuerySet._filters
                     \*      (bookkeeping for the claims)
    model            \* a BaseModel object: its _deleted flag and what its _data holds

vars == <<srvN, srvMode, qsLive, filters, sorts, request_limit, iterator_class,
          cache, heap, iters, gens, lastOp, calls, applied, model>>

\* ------------------------------------------------------------------------
\* The remote collection (record-fetch contract) and materialization
\* ------------------------------------------------------------------------
Record(i) == [id |-> i]                      \* the raw record at server position i
new_model(data) == [model |-> data]          \* QuerySet.new_model: obj.update(data)

\* total_count of a ListResponse: the number of records held, except that a remote
\* may report none ("none"), too many ("over") or too few ("under")
ReportedTotal(n, mode) ==
    CASE mode = "none"  -> NoneTC
      [] mode = "over"  -> n + OverReport
      [] mode = "under" -> Max(0, n - 1)
      [] OTHER          -> n

\* how many records the answer to Pagination(limit, offset) carries: R[offset:offset+limit],
\* or everything from offset on for a remote that ignores the limit ("extra")
AnswerLen(n, mode, offset, limit) ==
    IF mode = "extra" THEN Max(0, n - offset) ELSE Max(0, Min(n, offset + limit) - offset)

\* whether the call raises: always ("fail"), or for every page but the first ("fail_deep")
FetchFails(mode, offset) == mode = "fail" \/ (mode = "fail_deep" /\ offset > 0)

\* get_list(filters, sorts, Pagination(limit, offset))
get_list(n, mode, offset, limit) ==
    [records     |-> [j \in 1..AnswerLen(n, mode, offset, limit) |-> Record(offset + j - 1)],
     total_count |-> ReportedTotal(n, mode),
     err         |-> IF FetchFails(mode, offset) THEN "FetchError" ELSE "none"]

\* ------------------------------------------------------------------------
\* Sparse cache (MemoryCache = BaseCache + SparsedList)
\* ------------------------------------------------------------------------
EmptyData == [i \in {} |-> 0]
\* BaseCache.__init__ / BaseCache.new(): no content, total_count None
NewCache == [data |-> EmptyData, total_count |-> NoneTC]

\* index in cache
Cached(c, i) == i \in DOMAIN c.data

\* cache[start:stop] = recs: consecutive indices from start, never past stop,
\* nothing stored for positions recs does not fill
SetSlice(d, start, stop, recs) ==
    LET n   == Min(Len(recs), Max(0, stop - start))
        new == {start + j : j \in 0..(n - 1)}
    IN [i \in (DOMAIN d) \cup new |-> IF i \in new THEN recs[i - start + 1] ELSE d[i]]

\* ------------------------------------------------------------------------
\* QuerySet: fetching (model/queryset.py)
\* ------------------------------------------------------------------------
\* a _fetch_page that builds Pagination with its two arguments swapped
fetch_page_Swapped(q, offset, limit) ==
    [qs |-> q, filters |-> filters[q], sorts |-> sorts[q], limit |-> offset, offset |-> limit]

\* QuerySet._fetch_page(offset, limit): the arguments handed to get_list
fetch_page(q, offset, limit) ==
    [qs |-> q, filters |-> filters[q], sorts |-> sorts[q], limit |-> limit, offset |-> offset]

\* the remote's answer to one get_list call
Respond(call) == get_list(srvN, srvMode, call.offset, call.limit)

\* a cache_page that marks the total as unknown before it fetches
cache_page_MarkFirst(q, c, offset) ==
    LET rl   == request_limit[q]
        call == fetch_page(q, offset, rl)
        res  == Respond(call)
    IN IF res.err # "none"
       THEN [cache |-> [c EXCEPT !.total_count = Inf], calls |-> <<call>>, err |-> res.err]
       ELSE [cache |-> [data        |-> SetSlice(c.data, offset, offset + rl, res.records),
                        total_count |-> IF res.total_count # NoneTC THEN res.total_count ELSE Inf],
             calls |-> <<call>>,
             err   |-> "none"]

\* a cache_page that tries a failed fetch a second time
cache_page_Retry(q, c, offset) ==
    LET rl   == request_limit[q]
        call == fetch_page(q, offset, rl)
        res  == Respond(call)
    IN IF res.err # "none"
       THEN [cache |-> c, calls |-> <<call, call>>, err |-> res.err]
       ELSE [cache |-> [data        |-> SetSlice(c.data, offset, offset + rl, res.records),
                        total_count |-> IF res.total_count # NoneTC THEN res.total_count ELSE Inf],
             calls |-> <<call>>,
             err   |-> "none"]

\* a cache_page that assigns to the slice [offset:rl]
cache_page_UpToLimit(q, c, offset) ==
    LET rl   == request_limit[q]
        call == fetch_page(q, offset, rl)
        res  == Respond(call)
    IN IF res.err # "none"
       THEN [cache |-> c, calls |-> <<call>>, err |-> res.err]
       ELSE [cache |-> [data        |-> SetSlice(c.data, offset, rl, res.records),
                        total_count |-> IF res.total_count # NoneTC THEN res.total_count ELSE Inf],
             calls |-> <<call>>,
             err   |-> "none"]

\* a cache_page that sets total_count only while it is None
cache_page_KeepTotal(q, c, offset) ==
    LET rl   == request_limit[q]
        call == fetch_page(q, offset, rl)
        res  == Respond(call)
    IN IF res.err # "none"
       THEN [cache |-> c, calls |-> <<call>>, err |-> res.err]
       ELSE [cache |-> [data        |-> SetSlice(c.data, offset, offset + rl, res.records),
                        total_count |-> IF c.total_count # NoneTC THEN c.total_count
                                        ELSE IF res.total_count # NoneTC THEN res.total_count
                                        ELSE Inf],
             calls |-> <<call>>,
             err   |-> "none"]

\* QuerySet.cache_page(offset) of QuerySet q whose cache object holds c:
\* the cache afterwards, the get_list calls made and the error raised, if any.
\* An error of _fetch_page leaves the method before anything is assigned.
cache_page(q, c, offset) ==
    LET rl   == request_limit[q]
        call == fetch_page(q, offset, rl)
        res  == Respond(call)
    IN IF res.err # "none"
       THEN [cache |-> c, calls |-> <<call>>, err |-> res.err]
       ELSE [cache |-> [data        |-> SetSlice(c.data, offset, offset + rl, res.records),
                        total_count |-> IF res.total_count # NoneTC THEN res.total_count ELSE Inf],
             calls |-> <<call>>,
             err   |-> "none"]

\* a count() that tests "if not total_count": 0 is taken for unknown
count_Falsy(q, c) ==
    IF c.total_count = NoneTC \/ c.total_count = 0
    THEN cache_page(q, c, 0) ELSE [cache |-> c, calls |-> <<>>, err |-> "none"]

\* QuerySet.count(): the value returned is .cache.total_count
count(q, c) ==
    IF c.total_count = NoneTC THEN cache_page(q, c, 0)
    ELSE [cache |-> c, calls |-> <<>>, err |-> "none"]

\* the page objs() asks for on a miss at index pos
ObjsPageOffset(pos, rl) == (pos \div rl) * PageStride

\* one round of the while loop of objs() in QuerySet.__getitem__, at index pos:
\* either an object is yielded or the generator ends
ObjsStep(q, c, pos, stop) ==
    LET n   == count(q, c)
        go  == Below(pos, n.cache.total_count) /\ (stop = NoneArg \/ pos < stop)
        pg  == cache_page(q, n.cache, ObjsPageOffset(pos, request_limit[q]))
    IN IF n.err # "none"
       THEN [cache |-> n.cache, calls |-> n.calls, yield |-> FALSE, val |-> <<>>,
             err |-> n.err]
       ELSE IF ~go
       THEN [cache |-> n.cache, calls |-> n.calls, yield |-> FALSE, val |-> <<>>,
             err |-> "none"]
       ELSE IF Cached(n.cache, pos)
       THEN [cache |-> n.cache, calls |-> n.calls, yield |-> TRUE,
             val |-> <<new_model(n.cache.data[pos])>>, err |-> "none"]
       ELSE IF pg.err # "none"
       THEN [cache |-> pg.cache, calls |-> n.calls \o pg.calls, yield |-> FALSE, val |-> <<>>,
             err |-> pg.err]
       ELSE IF Cached(pg.cache, pos)
       THEN [cache |-> pg.cache, calls |-> n.calls \o pg.calls, yield |-> TRUE,
             val |-> <<new_model(pg.cache.data[pos])>>, err |-> "none"]
       ELSE [cache |-> pg.cache, calls |-> n.calls \o pg.calls, yield |-> FALSE, val |-> <<>>,
             err |-> "none"]

\* the assert at the head of QuerySet.__getitem__
IndexArgOk(k) == k >= 0

\* an assert that lets a step of 0 through (step >= 0)
SliceArgOk_StepZero(start, stop, step) ==
    /\ (start = NoneArg \/ start >= 0)
    /\ (stop = NoneArg \/ stop >= 0)
    /\ (step = NoneArg \/ step >= 0)

SliceArgOk(start, stop, step) ==
    /\ (start = NoneArg \/ start >= 0)
    /\ (stop = NoneArg \/ stop >= 0)
    /\ (step = NoneArg \/ step > 0)

\* a __getitem__ without the range test that answers None when objs() yields nothing
getitem_Unchecked(q, c, k) ==
    LET st == ObjsStep(q, c, k, k + 1)
    IN IF ~IndexArgOk(k)
       THEN [cache |-> c, calls |-> <<>>, err |-> "AssertionError", val |-> <<>>]
       ELSE [cache |-> st.cache, calls |-> st.calls, err |-> st.err, val |-> st.val]

\* QuerySet.__getitem__(k) for an integer k: [cache, calls, err, val]
getitem(q, c, k) ==
    LET n  == count(q, c)
        st == ObjsStep(q, n.cache, k, k + 1)
    IN IF ~IndexArgOk(k)
       THEN [cache |-> c, calls |-> <<>>, err |-> "AssertionError", val |-> <<>>]
       ELSE IF n.err # "none"
       THEN [cache |-> n.cache, calls |-> n.calls, err |-> n.err, val |-> <<>>]
       ELSE IF ~Below(k, n.cache.total_count)
       THEN [cache |-> n.cache, calls |-> n.calls, err |-> "IndexError", val |-> <<>>]
       ELSE IF st.err # "none"
       THEN [cache |-> st.cache, calls |-> n.calls \o st.calls, err |-> st.err, val |-> <<>>]
       ELSE IF st.yield
       THEN [cache |-> st.cache, calls |-> n.calls \o st.calls, err |-> "none", val |-> st.val]
       ELSE [cache |-> st.cache, calls |-> n.calls \o st.calls, err |-> "IndexError",
             val |-> <<>>]

\* a test that forgets "offset not in cache"
NeedPage_NoCacheTest(offset, rl, c) ==
    /\ offset % rl = 0
    /\ (c.total_count = NoneTC \/ Below(offset, c.total_count))

\* the test at the head of ModelIterator/ValuesIterator.__next__
NeedPage(offset, rl, c) ==
    /\ offset % rl = 0
    /\ (c.total_count = NoneTC \/ Below(offset, c.total_count))
    /\ ~Cached(c, offset)

\* ------------------------------------------------------------------------
\* Restrictions (model/restrictions/restrictions.py)
\* Expressions are strings, modelled as sequences of one-character strings.
\* ------------------------------------------------------------------------
\* position of the first occurrence of sep in s at or after i, 0 if none
RECURSIVE Find(_, _, _)
Find(s, sep, i) ==
    IF i + Len(sep) - 1 > Len(s) THEN 0
    ELSE IF SubSeq(s, i, i + Len(sep) - 1) = sep THEN i
    ELSE Find(s, sep, i + 1)

\* str.split(sep): the chunks between non-overlapping occurrences, left to right
RECURSIVE Split(_, _)
Split(s, sep) ==
    LET i == Find(s, sep, 1)
    IN IF i = 0 THEN <<s>>
       ELSE <<SubSeq(s, 1, i - 1)>> \o Split(SubSeq(s, i + Len(sep), Len(s)), sep)

\* FilterOperator(op): the member whose value is op, "" when there is none (ValueError)
FilterOperator(op) ==
    CASE op = <<"e", "q">> -> "Equal"
      [] op = <<"l", "t">> -> "LessThan"
      [] op = <<"g", "t">> -> "GreaterThan"
      [] op = <<"n", "e">> -> "NotEqual"
      [] op = <<"i", "n">> -> "In"
      [] OTHER             -> ""

\* a make_object that does not look the operator up in FilterOperator
FilterMakeObject_AnyOperator(key, value) ==
    LET chunks == Split(key, <<"_", "_">>)
        bad    == [err |-> "ValueError", obj |-> [field_name |-> <<>>, op |-> "", val |-> value]]
    IN IF Len(chunks) # 2 THEN bad
       ELSE [err |-> "none",
             obj |-> [field_name |-> chunks[1], op |-> FilterOperator(chunks[2]), val |-> value]]

\* Filters.make_object(key, value): [err, obj]
FilterMakeObject(key, value) ==
    LET chunks == Split(key, <<"_", "_">>)
        bad    == [err |-> "ValueError", obj |-> [field_name |-> <<>>, op |-> "", val |-> value]]
    IN IF Len(chunks) # 2 THEN bad
       ELSE IF FilterOperator(chunks[2]) = "" THEN bad
       ELSE [err |-> "none",
             obj |-> [field_name |-> chunks[1], op |-> FilterOperator(chunks[2]), val |-> value]]

\* A filter value is [eqv, str]: eqv stands for the value as == compares it, str for
\* its str(): One and OneFloat are 1 and 1.0 (equal, printed differently).
One == [eqv |-> "1", str |-> "1"]
OneFloat == [eqv |-> "1", str |-> "1.0"]

\* the value None
NoneVal == [eqv |-> "None", str |-> "None"]

\* BaseRestriction.__hash__: hash of the str() of the slots joined
RestrictionHash(o) == <<o.field_name, o.op, o.val.str>>
\* BaseRestriction.__eq__: every slot equal
RestrictionEq(a, b) == a.field_name = b.field_name /\ a.op = b.op /\ a.val.eqv = b.val.eqv

\* set.add(obj): nothing is added when the set holds an element of the same hash
\* that is equal to obj
SetAdd(S, obj) ==
    IF \E y \in S : RestrictionHash(y) = RestrictionHash(obj) /\ RestrictionEq(y, obj)
    THEN S ELSE S \cup {obj}

\* a step of apply that puts the new filter in place of the field's set
FilterAdd_Replace(d, obj) ==
    [k \in (DOMAIN d) \cup {obj.field_name} |-> IF k = obj.field_name THEN {obj} ELSE d[k]]

\* the body of the loop of Filters.apply: the field gets a set if it has none, and
\* the filter is added to it
FilterAdd(d, obj) ==
    [k \in (DOMAIN d) \cup {obj.field_name} |->
        IF k = obj.field_name
        THEN SetAdd(IF obj.field_name \in DOMAIN d THEN d[obj.field_name] ELSE {}, obj)
        ELSE d[k]]

\* Filters.apply(**kwargs) on container data d; kwargs is a sequence of <<key, value>>.
\* Expressions before a bad one stay applied to d.
RECURSIVE FiltersApply(_, _)
FiltersApply(d, kwargs) ==
    IF kwargs = <<>> THEN [err |-> "none", data |-> d]
    ELSE LET res == FilterMakeObject(kwargs[1][1], kwargs[1][2])
         IN IF res.err # "none" THEN [err |-> res.err, data |-> d]
            ELSE FiltersApply(FilterAdd(d, res.obj), Tail(kwargs))

\* Bookkeeping for the claims: the expressions of kwargs that apply() got to make
\* before it met a bad one
RECURSIVE MadeFilters(_)
MadeFilters(kwargs) ==
    IF kwargs = <<>> THEN {}
    ELSE IF FilterMakeObject(kwargs[1][1], kwargs[1][2]).err # "none" THEN {}
    ELSE {kwargs[1]} \cup MadeFilters(Tail(kwargs))

\* Sorts.make_object(expr): [err, obj]
SortMakeObject(expr) ==
    LET chunks == Split(expr, <<"-">>)
        bad    == [err |-> "ValueError", obj |-> [field_name |-> <<>>, direction |-> ""]]
    IN IF Len(chunks) > 2 \/ expr = <<>> THEN bad
       ELSE IF chunks[1] = <<>>
            THEN [err |-> "none", obj |-> [field_name |-> chunks[2], direction |-> "Descending"]]
       ELSE IF Len(chunks) > 1 THEN bad
       ELSE [err |-> "none", obj |-> [field_name |-> chunks[1], direction |-> "Ascending"]]

\* a step of apply that adds the new sort to the field's set
SortSet_Add(d, obj) ==
    [k \in (DOMAIN d) \cup {obj.field_name} |->
        IF k = obj.field_name
        THEN (IF obj.field_name \in DOMAIN d THEN d[obj.field_name] ELSE {}) \cup {obj}
        ELSE d[k]]

\* the body of the loop of Sorts.apply: self.data[res.field_name] = {res}
SortSet(d, obj) ==
    [k \in (DOMAIN d) \cup {obj.field_name} |-> IF k = obj.field_name THEN {obj} ELSE d[k]]

\* Sorts.apply(*args) on container data d: one sort per field, the last one wins
RECURSIVE SortsApply(_, _)
SortsApply(d, args) ==
    IF args = <<>> THEN [err |-> "none", data |-> d]
    ELSE LET res == SortMakeObject(args[1])
         IN IF res.err # "none" THEN [err |-> res.err, data |-> d]
            ELSE SortsApply(SortSet(d, res.obj), Tail(args))

\* Filters() / Sorts(): an empty container
NoRestrictions == [k \in {} |-> {}]

\* Sorts.make(*args): self.data.clear(), then apply
SortsMake(args) == SortsApply(NoRestrictions, args)

\* ------------------------------------------------------------------------
\* Translation for transport (adapters/restless.py)
\* ------------------------------------------------------------------------
\* RestlessAdapter.restless_filters
restless_filters(op) ==
    CASE op = "Equal"       -> "eq"
      [] op = "NotEqual"    -> "neq"
      [] op = "GreaterThan" -> "gt"
      [] op = "LessThan"    -> "lt"
      [] op = "In"          -> "in"

\* RestlessAdapter.restless_sorts
restless_sorts(direction) == IF direction = "Ascending" THEN "asc" ELSE "desc"

\* a to_filter that sends a null value like any other
to_filter_Plain(f) ==
    [err |-> "none", out |-> [name |-> f.field_name, op |-> restless_filters(f.op), val |-> f.val]]

\* to_filter(f) in build_q: [err, out]; out is the dict sent, without 'val' for a null
to_filter(f) ==
    IF f.val = NoneVal
    THEN IF f.op = "Equal"
         THEN [err |-> "none", out |-> [name |-> f.field_name, op |-> "is_null"]]
         ELSE IF f.op = "NotEqual"
         THEN [err |-> "none", out |-> [name |-> f.field_name, op |-> "is_not_null"]]
         ELSE [err |-> "AdapterError", out |-> [op |-> f.op, field |-> f.field_name]]
    ELSE [err |-> "none",
          out |-> [name |-> f.field_name, op |-> restless_filters(f.op), val |-> f.val]]

\* to_sort(s) in build_q
to_sort(srt) == [field |-> srt.field_name, direction |-> restless_sorts(srt.direction)]

\* RestlessAdapter.build_q(filters, sorts, pagination) on container data f and s.
\* The list under 'and' is kept as a set (its order is that of dict and set iteration),
\* so is 'order_by'; an empty set or an offset of 0 stands for a key that is left out.
\* raised: the errors the comprehension can stop at, one per filter to_filter refuses.
build_q(f, s, offset) ==
    LET fs  == UNION {f[k] : k \in DOMAIN f}
        ss  == UNION {s[k] : k \in DOMAIN s}
        bad == {x \in fs : to_filter(x).err # "none"}
    IN [raised |-> {to_filter(x).out : x \in bad},
        q      |-> [filters  |-> {to_filter(x).out : x \in fs \ bad},
                    order_by |-> {to_sort(x) : x \in ss},
                    offset   |-> offset]]

\* ------------------------------------------------------------------------
\* Initial state: one QuerySet with an empty cache, either
\* QuerySet(model_obj, request_limit=rl) or a QuerySet derived from it
\* ------------------------------------------------------------------------
NoOp == [op |-> "init", qs |-> 0, arg |-> <<>>, err |-> "none", new |-> 0, ret |-> <<>>]
FreeIter == [state |-> "free", qs |-> 0, cache |-> 0, class |-> "", offset |-> 0, pos |-> 0,
             yielded |-> <<>>, fetched |-> <<>>, pre |-> "", alone |-> FALSE]
FreeGen == [state |-> "free", qs |-> 0, start |-> 0, stop |-> NoneArg, step |-> 1, c |-> 0,
            yielded |-> <<>>]

KeyEq == <<"a", "_", "_", "e", "q">>     \* a__eq

\* QuerySet(model_obj)
StartPlain ==
    [filters |-> NoRestrictions, sorts |-> NoRestrictions, class |-> "ModelIterator",
     applied |-> {}]
\* QuerySet(model_obj).filter(a__eq=1).order_by('-f').values()
StartDerived ==
    [filters |-> FiltersApply(NoRestrictions, <<<<KeyEq, One>>>>).data,
     sorts   |-> SortsApply(NoRestrictions, <<<<"-", "f">>>>).data,
     class   |-> "ValuesIterator",
     applied |-> {<<KeyEq, One>>}]

\* A model's primary key in _data: a value, None, or no entry at all
NonePk == 0
AbsentPk == -1
PkVals == 1..MaxPk
\* BaseModel(pk=None): not deleted; valid tells whether validate() passes on _data
NewModel == [deleted |-> FALSE, pk |-> NonePk, valid |-> TRUE]

\* Its: the slots for iterator objects
InitWithIters(Ns, Ms, Limits, Starts, Its) ==
    /\ model = NewModel
    /\ srvN \in Ns
    /\ srvMode \in Ms
    /\ qsLive = {1}
    /\ \E st \in Starts :
        /\ filters = [q \in QSIds |-> IF q = 1 THEN st.filters ELSE NoRestrictions]
        /\ sorts = [q \in QSIds |-> IF q = 1 THEN st.sorts ELSE NoRestrictions]
        /\ iterator_class = [q \in QSIds |-> IF q = 1 THEN st.class ELSE ""]
        /\ applied = [q \in QSIds |-> IF q = 1 THEN st.applied ELSE {}]
    /\ \E rl \in Limits : request_limit = [q \in QSIds |-> IF q = 1 THEN rl ELSE 0]
    /\ cache = [q \in QSIds |-> IF q = 1 THEN 1 ELSE 0]
    /\ heap = [r \in {1} |-> NewCache]
    /\ iters = [i \in Its |-> FreeIter]
    /\ gens = [g \in GenIds |-> FreeGen]
    /\ lastOp = NoOp
    /\ calls = <<>>

InitWith(Ns, Ms, Limits, Starts) == InitWithIters(Ns, Ms, Limits, Starts, IterIds)

\* ------------------------------------------------------------------------
\* QuerySet operations that derive a new QuerySet
\* ------------------------------------------------------------------------
FreshQS == CHOOSE n \in QSIds \ qsLive : \A m \in QSIds \ qsLive : n <= m
FreshRef == CHOOSE r \in CacheRefs \ DOMAIN heap : \A m \in CacheRefs \ DOMAIN heap : r <= m
CanAllocate == QSIds \ qsLive # {} /\ CacheRefs \ DOMAIN heap # {}

\* a new() that hands back the cache it was called on
CacheNew_Shared(ref, fresh) == ref

\* BaseCache.new(): the reference of the cache object the copy gets
CacheNew(ref, fresh) == fresh

\* a deepcopy that returns the object itself
Deepcopy_Self(q, fresh) == q

\* deepcopy(self) in filter/order_by/all/values: the object the method goes on to
\* change and return
Deepcopy(q, fresh) == fresh

\* a __deepcopy__ that stops after obj = self.__class__(self._model_obj): the copy
\* has the page size of a newly constructed QuerySet
InstallCopy_Constructed(q, t, r, f, s, ic) ==
    /\ qsLive' = qsLive \cup {t}
    /\ filters' = [filters EXCEPT ![t] = f]
    /\ sorts' = [sorts EXCEPT ![t] = s]
    /\ request_limit' = [request_limit EXCEPT ![t] = default_request_limit]
    /\ iterator_class' = [iterator_class EXCEPT ![t] = ic]
    /\ cache' = [cache EXCEPT ![t] = r]
    /\ heap' = [x \in (DOMAIN heap) \cup {r} |-> IF x \in DOMAIN heap THEN heap[x] ELSE NewCache]

\* QuerySet.__deepcopy__ followed by the caller's change (filters f, sorts s,
\* iterator class ic) on the copy t, whose cache reference is r
InstallCopy(q, t, r, f, s, ic) ==
    /\ qsLive' = qsLive \cup {t}
    /\ filters' = [filters EXCEPT ![t] = f]
    /\ sorts' = [sorts EXCEPT ![t] = s]
    /\ request_limit' = [request_limit EXCEPT ![t] = request_limit[q]]
    /\ iterator_class' = [iterator_class EXCEPT ![t] = ic]
    /\ cache' = [cache EXCEPT ![t] = r]
    /\ heap' = [x \in (DOMAIN heap) \cup {r} |-> IF x \in DOMAIN heap THEN heap[x] ELSE NewCache]

QSFields == <<qsLive, filters, sorts, request_limit, iterator_class, cache, heap>>

\* QuerySet.filter(**kwargs)
Filter(q, kwargs) ==
    /\ q \in qsLive /\ CanAllocate
    /\ LET t   == Deepcopy(q, FreshQS)
           r   == CacheNew(cache[q], FreshRef)
           res == FiltersApply(filters[q], kwargs)
       IN IF res.err = "none"
          THEN /\ InstallCopy(q, t, r, res.data, sorts[q], iterator_class[q])
               /\ applied' = [applied EXCEPT ![t] = applied[q] \cup Range(kwargs)]
               /\ lastOp' = [op |-> "filter", qs |-> q, arg |-> kwargs, err |-> "none", new |-> t, ret |-> <<>>]
          ELSE /\ UNCHANGED <<QSFields, applied>>
               /\ lastOp' = [op |-> "filter", qs |-> q, arg |-> kwargs, err |-> res.err, new |-> 0, ret |-> <<>>]
    /\ calls' = <<>>
    /\ UNCHANGED <<model, srvN, srvMode, iters, gens>>

\* QuerySet.order_by(*args)
OrderBy(q, args) ==
    /\ q \in qsLive /\ CanAllocate
    /\ LET t   == Deepcopy(q, FreshQS)
           r   == CacheNew(cache[q], FreshRef)
           res == SortsApply(sorts[q], args)
       IN IF res.err = "none"
          THEN /\ InstallCopy(q, t, r, filters[q], res.data, iterator_class[q])
               /\ applied' = [applied EXCEPT ![t] = applied[q]]
               /\ lastOp' = [op |-> "order_by", qs |-> q, arg |-> args, err |-> "none", new |-> t, ret |-> <<>>]
          ELSE /\ UNCHANGED <<QSFields, applied>>
               /\ lastOp' = [op |-> "order_by", qs |-> q, arg |-> args, err |-> res.err, new |-> 0, ret |-> <<>>]
    /\ calls' = <<>>
    /\ UNCHANGED <<model, srvN, srvMode, iters, gens>>

\* QuerySet.all()
All(q) ==
    /\ q \in qsLive /\ CanAllocate
    /\ InstallCopy(q, Deepcopy(q, FreshQS), CacheNew(cache[q], FreshRef),
                   filters[q], sorts[q], iterator_class[q])
    /\ applied' = [applied EXCEPT ![Deepcopy(q, FreshQS)] = applied[q]]
    /\ lastOp' = [op |-> "all", qs |-> q, arg |-> <<>>, err |-> "none", new |-> Deepcopy(q, FreshQS),
                  ret |-> <<>>]
    /\ calls' = <<>>
    /\ UNCHANGED <<model, srvN, srvMode, iters, gens>>

\* QuerySet.values()
Values(q) ==
    /\ q \in qsLive /\ CanAllocate
    /\ InstallCopy(q, Deepcopy(q, FreshQS), CacheNew(cache[q], FreshRef),
                   filters[q], sorts[q], "ValuesIterator")
    /\ applied' = [applied EXCEPT ![Deepcopy(q, FreshQS)] = applied[q]]
    /\ lastOp' = [op |-> "values", qs |-> q, arg |-> <<>>, err |-> "none", new |-> Deepcopy(q, FreshQS),
                  ret |-> <<>>]
    /\ calls' = <<>>
    /\ UNCHANGED <<model, srvN, srvMode, iters, gens>>

\* the last reference to a derived QuerySet goes out of scope
Del(q) ==
    /\ q \in qsLive /\ q # 1
    /\ \A i \in DOMAIN iters : iters[i].qs # q
    /\ \A g \in GenIds : gens[g].qs # q
    /\ qsLive' = qsLive \ {q}
    /\ filters' = [filters EXCEPT ![q] = NoRestrictions]
    /\ applied' = [applied EXCEPT ![q] = {}]
    /\ sorts' = [sorts EXCEPT ![q] = NoRestrictions]
    /\ request_limit' = [request_limit EXCEPT ![q] = 0]
    /\ iterator_class' = [iterator_class EXCEPT ![q] = ""]
    /\ cache' = [cache EXCEPT ![q] = 0]
    /\ heap' = [x \in (DOMAIN heap) \ ({cache[q]} \ {cache[p] : p \in qsLive \ {q}}) |-> heap[x]]
    /\ lastOp' = [op |-> "del", qs |-> q, arg |-> <<>>, err |-> "none", new |-> 0, ret |-> <<>>]
    /\ calls' = <<>>
    /\ UNCHANGED <<model, srvN, srvMode, iters, gens>>

\* qs.filters.apply(**kwargs): on the container the QuerySet holds
ApplyFilters(q, kwargs) ==
    /\ q \in qsLive
    /\ LET res == FiltersApply(filters[q], kwargs)
       IN /\ filters' = [filters EXCEPT ![q] = res.data]
          /\ applied' = [applied EXCEPT ![q] = @ \cup MadeFilters(kwargs)]
          /\ lastOp' = [op |-> "filters_apply", qs |-> q, arg |-> kwargs, err |-> res.err,
                        new |-> 0, ret |-> <<>>]
    /\ calls' = <<>>
    /\ UNCHANGED <<model, srvN, srvMode, qsLive, sorts, request_limit, iterator_class, cache, heap,
                   iters, gens>>

\* qs.sorts.apply(*args): on the container the QuerySet holds
ApplySorts(q, args) ==
    /\ q \in qsLive
    /\ LET res == SortsApply(sorts[q], args)
       IN /\ sorts' = [sorts EXCEPT ![q] = res.data]
          /\ lastOp' = [op |-> "sorts_apply", qs |-> q, arg |-> args, err |-> res.err,
                        new |-> 0, ret |-> <<>>]
    /\ calls' = <<>>
    /\ UNCHANGED <<model, srvN, srvMode, qsLive, filters, applied, request_limit, iterator_class,
                   cache, heap, iters, gens>>

\* qs.sorts.make(*args): on the container the QuerySet holds
MakeSorts(q, args) ==
    /\ q \in qsLive
    /\ LET res == SortsMake(args)
       IN /\ sorts' = [sorts EXCEPT ![q] = res.data]
          /\ lastOp' = [op |-> "sorts_make", qs |-> q, arg |-> args, err |-> res.err,
                        new |-> 0, ret |-> <<>>]
    /\ calls' = <<>>
    /\ UNCHANGED <<model, srvN, srvMode, qsLive, filters, applied, request_limit, iterator_class,
                   cache, heap, iters, gens>>

\* RestlessAdapter.build_q(qs.filters, qs.sorts, Pagination(limit, offset)): what a
\* record-fetch call of q at this offset is translated to. On an error, ret holds the
\* operator and the field the message names.
BuildQ(q, offset) ==
    /\ q \in qsLive
    /\ LET b == build_q(filters[q], sorts[q], offset)
       IN IF b.raised = {}
          THEN lastOp' = [op |-> "build_q", qs |-> q, arg |-> <<offset>>, err |-> "none",
                          new |-> 0, ret |-> <<b.q>>]
          ELSE \E e \in b.raised :
                  lastOp' = [op |-> "build_q", qs |-> q, arg |-> <<offset>>,
                             err |-> "AdapterError", new |-> 0, ret |-> <<e>>]
    /\ calls' = <<>>
    /\ UNCHANGED <<model, srvN, srvMode, qsLive, filters, applied, sorts, request_limit,
                   iterator_class, cache, heap, iters, gens>>

\* ------------------------------------------------------------------------
\* BaseModel: save, delete, update, load (model/model.py). calls holds the calls
\* made to the implementation object (_impl_object) by the operation.
\* ------------------------------------------------------------------------
QSState == <<srvN, srvMode, qsLive, filters, applied, sorts, request_limit, iterator_class,
             cache, heap, iters, gens>>

ModelOp(name, arg, err) ==
    [op |-> name, qs |-> 0, arg |-> arg, err |-> err, new |-> 0, ret |-> <<>>]

\* BaseModel.delete() on model m; raises: whether _impl_object.delete raises.
\* self._data[self._fields[pk]] is a dict subscript: KeyError when _data has no entry.
delete(m, raises) ==
    IF m.deleted THEN [model |-> m, calls |-> <<>>, err |-> "ModelError"]
    ELSE IF m.pk = AbsentPk THEN [model |-> m, calls |-> <<>>, err |-> "KeyError"]
    ELSE IF m.pk = NonePk THEN [model |-> m, calls |-> <<>>, err |-> "ModelError"]
    ELSE IF raises
    THEN [model |-> m, calls |-> <<[fn |-> "delete", pk_val |-> m.pk]>>, err |-> "ImplError"]
    ELSE [model |-> [m EXCEPT !.deleted = TRUE],
          calls |-> <<[fn |-> "delete", pk_val |-> m.pk]>>, err |-> "none"]

\* BaseModel.save() on model m; out is what _impl_object.create/update does: it
\* raises, returns None ("none") or returns a record ("record", with pk and valid).
\* A pk with no entry in _data reads as None (the field's default).
save(m, out) ==
    LET fn == IF m.pk \in {NonePk, AbsentPk} THEN "create" ELSE "update"
    IN IF m.deleted THEN [model |-> m, calls |-> <<>>, err |-> "ModelError"]
       ELSE IF ~m.valid THEN [model |-> m, calls |-> <<>>, err |-> "ValidationError"]
       ELSE IF out.kind = "raise"
       THEN [model |-> m, calls |-> <<[fn |-> fn, pk_val |-> m.pk]>>, err |-> "ImplError"]
       ELSE IF out.kind = "none"
       THEN [model |-> m, calls |-> <<[fn |-> fn, pk_val |-> m.pk]>>, err |-> "none"]
       ELSE [model |-> [m EXCEPT !.pk = out.pk, !.valid = out.valid],
             calls |-> <<[fn |-> fn, pk_val |-> m.pk]>>, err |-> "none"]

\* BaseModel.load(pk=k) on model m; out is what _impl_object.get does: it raises,
\* returns no record ("none") or returns a record. _data is emptied before the call is made and
\* _deleted is cleared after the record is loaded.
load(m, k, out) ==
    LET wiped == [m EXCEPT !.pk = AbsentPk, !.valid = TRUE]
    IN IF k = NonePk THEN [model |-> m, calls |-> <<>>, err |-> "ValueError"]
       ELSE IF out.kind = "raise"
       THEN [model |-> wiped, calls |-> <<[fn |-> "get", pk_val |-> k]>>, err |-> "ImplError"]
       ELSE IF out.kind = "none"
       THEN [model |-> wiped, calls |-> <<[fn |-> "get", pk_val |-> k]>>,
             err |-> "NotFoundError"]
       ELSE [model |-> [deleted |-> FALSE, pk |-> out.pk, valid |-> out.valid],
             calls |-> <<[fn |-> "get", pk_val |-> k]>>, err |-> "none"]

\* what a call to the implementation object may do
ImplOutcomes ==
    {[kind |-> k, pk |-> AbsentPk, valid |-> TRUE] : k \in {"raise", "none"}}
    \cup [kind : {"record"}, pk : PkVals \cup {AbsentPk}, valid : BOOLEAN]

ModelDelete(raises) ==
    /\ LET r == delete(model, raises)
       IN model' = r.model /\ calls' = r.calls /\ lastOp' = ModelOp("model_delete", <<>>, r.err)
    /\ UNCHANGED QSState

ModelSave(out) ==
    /\ LET r == save(model, out)
       IN model' = r.model /\ calls' = r.calls /\ lastOp' = ModelOp("model_save", <<>>, r.err)
    /\ UNCHANGED QSState

ModelLoad(k, out) ==
    /\ LET r == load(model, k, out)
       IN model' = r.model /\ calls' = r.calls /\ lastOp' = ModelOp("model_load", <<k>>, r.err)
    /\ UNCHANGED QSState

\* BaseModel.update(pk=k, ...): the fields are set, then _deleted = False
ModelUpdate(k, valid) ==
    /\ model' = [deleted |-> FALSE, pk |-> k, valid |-> valid]
    /\ calls' = <<>>
    /\ lastOp' = ModelOp("model_update", <<k, valid>>, "none")
    /\ UNCHANGED QSState

\* ------------------------------------------------------------------------
\* QuerySet operations on the QuerySet itself
\* ------------------------------------------------------------------------
SetCache(q, c) == heap' = [heap EXCEPT ![cache[q]] = c]

\* Bookkeeping for the claims: an iterator over q other than i is no longer the
\* only user of q since it was made
Disturb(q, i) ==
    iters' = [j \in DOMAIN iters |->
                IF j # i /\ iters[j].qs = q THEN [iters[j] EXCEPT !.alone = FALSE] ELSE iters[j]]

\* QuerySet.count()
Count(q) ==
    /\ q \in qsLive
    /\ LET n == count(q, heap[cache[q]])
       IN /\ SetCache(q, n.cache)
          /\ calls' = n.calls
          /\ lastOp' = [op |-> "count", qs |-> q, arg |-> <<>>, err |-> n.err, new |-> 0,
                        ret |-> IF n.err = "none" THEN <<n.cache.total_count>> ELSE <<>>]
    /\ Disturb(q, 0)
    /\ UNCHANGED <<model, applied, srvN, srvMode, qsLive, filters, sorts, request_limit, iterator_class,
                   cache, gens>>

\* bool(total_count) with Decimal('Inf') taken for false
Truthy_FiniteOnly(tc) == tc > 0

\* bool(self.count()): 0 is false, every other int and Decimal('Inf') are true
Truthy(tc) == tc # 0

\* QuerySet.exists() / QuerySet.__bool__
Answer(q, how) ==
    /\ q \in qsLive
    /\ LET n == count(q, heap[cache[q]])
       IN /\ SetCache(q, n.cache)
          /\ calls' = n.calls
          /\ lastOp' = [op |-> how, qs |-> q, arg |-> <<>>, err |-> n.err, new |-> 0,
                        ret |-> IF n.err = "none" THEN <<Truthy(n.cache.total_count)>>
                                ELSE <<>>]
    /\ Disturb(q, 0)
    /\ UNCHANGED <<model, applied, srvN, srvMode, qsLive, filters, sorts, request_limit, iterator_class,
                   cache, gens>>

\* QuerySet.exists()
Exists(q) == Answer(q, "exists")

\* QuerySet.__bool__: bool(qs), if qs:
Bool(q) == Answer(q, "bool")

\* a set_request_limit that leaves the page size as it is
set_request_limit_Ignored(q, limit) == request_limit

\* self._request_limit = limit
set_request_limit(q, limit) == [request_limit EXCEPT ![q] = limit]

\* QuerySet.set_request_limit(limit)
SetRequestLimit(q, limit) ==
    /\ q \in qsLive
    /\ request_limit' = set_request_limit(q, limit)
    /\ lastOp' = [op |-> "set_request_limit", qs |-> q, arg |-> <<limit>>, err |-> "none", new |-> 0,
                  ret |-> <<q>>]
    /\ calls' = <<>>
    /\ Disturb(q, 0)
    /\ UNCHANGED <<model, applied, srvN, srvMode, qsLive, filters, sorts, iterator_class, cache, heap, gens>>

\* QuerySet.cache_page(offset)
CachePage(q, offset) ==
    /\ q \in qsLive
    /\ LET pg == cache_page(q, heap[cache[q]], offset)
       IN /\ SetCache(q, pg.cache)
          /\ calls' = pg.calls
          /\ lastOp' = [op |-> "cache_page", qs |-> q, arg |-> <<offset>>, err |-> pg.err,
                        new |-> 0, ret |-> <<>>]
    /\ Disturb(q, 0)
    /\ UNCHANGED <<model, applied, srvN, srvMode, qsLive, filters, sorts, request_limit, iterator_class,
                   cache, gens>>

\* qs[k] for an integer k
GetItem(q, k) ==
    /\ q \in qsLive
    /\ LET r == getitem(q, heap[cache[q]], k)
       IN /\ SetCache(q, r.cache)
          /\ calls' = r.calls
          /\ lastOp' = [op |-> "getitem", qs |-> q, arg |-> <<k>>, err |-> r.err, new |-> 0,
                        ret |-> r.val]
    /\ Disturb(q, 0)
    /\ UNCHANGED <<model, applied, srvN, srvMode, qsLive, filters, sorts, request_limit, iterator_class,
                   cache, gens>>

\* qs[start:stop:step]: the assert, then a generator objs(start, stop, step) that has
\* not run yet (c = start or 0, step = step or 1)
GetSlice(q, g, start, stop, step) ==
    /\ q \in qsLive
    /\ gens[g].state = "free"
    /\ IF SliceArgOk(start, stop, step)
       THEN /\ gens' = [gens EXCEPT ![g] =
                    [state |-> "active", qs |-> q,
                     start |-> IF start = NoneArg THEN 0 ELSE start,
                     stop |-> stop,
                     step |-> IF step = NoneArg THEN 1 ELSE step,
                     c |-> IF start = NoneArg THEN 0 ELSE start,
                     yielded |-> <<>>]]
            /\ lastOp' = [op |-> "getslice", qs |-> q, arg |-> <<start, stop, step>>,
                          err |-> "none", new |-> 0, ret |-> <<g>>]
       ELSE /\ gens' = gens
            /\ lastOp' = [op |-> "getslice", qs |-> q, arg |-> <<start, stop, step>>,
                          err |-> "AssertionError", new |-> 0, ret |-> <<>>]
    /\ calls' = <<>>
    /\ UNCHANGED <<model, applied, srvN, srvMode, qsLive, filters, sorts, request_limit, iterator_class,
                   cache, heap, iters>>

\* next() on the generator returned by qs[start:stop:step]
GenNext(g) ==
    /\ gens[g].state = "active"
    /\ LET q  == gens[g].qs
           st == ObjsStep(q, heap[cache[q]], gens[g].c, gens[g].stop)
       IN /\ SetCache(q, st.cache)
          /\ calls' = st.calls
          /\ Disturb(q, 0)
          /\ IF st.err # "none"
             THEN /\ gens' = [gens EXCEPT ![g].state = "failed"]
                  /\ lastOp' = [op |-> "gen_next", qs |-> q, arg |-> <<g>>, err |-> st.err,
                                new |-> 0, ret |-> <<>>]
             ELSE IF st.yield
             THEN /\ gens' = [gens EXCEPT ![g].c = @ + gens[g].step,
                                          ![g].yielded = @ \o st.val]
                  /\ lastOp' = [op |-> "gen_next", qs |-> q, arg |-> <<g>>, err |-> "none",
                                new |-> 0, ret |-> st.val]
             ELSE /\ gens' = [gens EXCEPT ![g].state = "done"]
                  /\ lastOp' = [op |-> "gen_next", qs |-> q, arg |-> <<g>>,
                                err |-> "StopIteration", new |-> 0, ret |-> <<>>]
    /\ UNCHANGED <<model, applied, srvN, srvMode, qsLive, filters, sorts, request_limit, iterator_class, cache>>

\* the kind of error a read of a cache index that was never written raises: objs()
\* catches it with "except IndexError"
CacheMissError == "IndexError"

\* qs._cache[i]: a direct read of the cache, as test code does
CacheRead(q, i) ==
    /\ q \in qsLive
    /\ lastOp' = [op |-> "cache_read", qs |-> q, arg |-> <<i>>,
                  err |-> IF Cached(heap[cache[q]], i) THEN "none" ELSE CacheMissError,
                  new |-> 0,
                  ret |-> IF Cached(heap[cache[q]], i) THEN <<heap[cache[q]].data[i]>> ELSE <<>>]
    /\ calls' = <<>>
    /\ UNCHANGED <<model, applied, srvN, srvMode, qsLive, filters, sorts, request_limit, iterator_class,
                   cache, heap, iters, gens>>

\* the remote collection changes between two calls: it now holds n records and
\* answers in the given mode
RemoteChange(n, mode) ==
    /\ <<n, mode>> # <<srvN, srvMode>>
    /\ srvN' = n
    /\ srvMode' = mode
    /\ lastOp' = [op |-> "remote_change", qs |-> 0, arg |-> <<n, mode>>, err |-> "none",
                  new |-> 0, ret |-> <<>>]
    /\ calls' = <<>>
    /\ UNCHANGED <<model, applied, qsLive, filters, sorts, request_limit, iterator_class, cache,
                   heap, iters, gens>>

\* ------------------------------------------------------------------------
\* Iterators
\* ------------------------------------------------------------------------
\* Bookkeeping for the claims: what the cache of q looks like when an iterator is made
CacheShape(q) ==
    IF heap[cache[q]] = NewCache THEN "fresh"
    ELSE IF heap[cache[q]] = cache_page(q, NewCache, 0).cache THEN "counted"
    ELSE IF heap[cache[q]].total_count = srvN /\ DOMAIN heap[cache[q]].data = 0..(srvN - 1)
    THEN "full"
    ELSE "other"

\* an iterator that takes up where the cached records of the QuerySet end
BaseIteratorInit_Resume(q) ==
    [offset |-> Cardinality(DOMAIN heap[cache[q]].data),
     pos    |-> Cardinality(DOMAIN heap[cache[q]].data)]

\* BaseIterator.__init__: _offset = 0 and _iter = iter(cache), at its first index
BaseIteratorInit(q) == [offset |-> 0, pos |-> 0]

\* QuerySet.__iter__: self._iterator_class(self, self._cache), BaseIterator.__init__
Iter(q, i) ==
    /\ q \in qsLive
    /\ i \in DOMAIN iters
    /\ iters' = [iters EXCEPT ![i] =
            [state |-> "active", qs |-> q, cache |-> cache[q], class |-> iterator_class[q],
             offset |-> BaseIteratorInit(q).offset, pos |-> BaseIteratorInit(q).pos,
             yielded |-> <<>>, fetched |-> <<>>,
             pre |-> CacheShape(q),
             alone |-> TRUE]]
    /\ lastOp' = [op |-> "iter", qs |-> q, arg |-> <<>>, err |-> "none", new |-> 0,
                  ret |-> <<i>>]
    /\ calls' = <<>>
    /\ UNCHANGED <<model, applied, srvN, srvMode, qsLive, filters, sorts, request_limit, iterator_class,
                   cache, heap, gens>>

\* what __next__ returns for the raw record rec
IterValue(class, rec) == IF class = "ModelIterator" THEN new_model(rec) ELSE rec

\* a __next__ that hands the caller nothing and stays where it is while the cache
\* has a record for it
IterStep_Stay(it, need, got, val) ==
    IF got THEN it ELSE [it EXCEPT !.offset = @ + 1, !.state = "done"]

\* self._offset += 1, then next(self._iter): the iterator after a __next__ that did
\* not fail in its fetch. got: the cache holds the index the inner iterator is at;
\* without it next() raises StopIteration and the iteration is over.
IterStep(it, need, got, val) ==
    [it EXCEPT !.offset = @ + 1,
               !.pos = IF got THEN @ + 1 ELSE @,
               !.state = IF got THEN "active" ELSE "done",
               !.yielded = @ \o val,
               !.fetched = IF need THEN @ \o <<it.offset>> ELSE @]

\* ModelIterator.__next__ / ValuesIterator.__next__, while the for loop is running.
\* An error of cache_page leaves __next__ before _offset is incremented.
IterNext(i) ==
    /\ i \in DOMAIN iters
    /\ iters[i].state = "active"
    /\ LET it   == iters[i]
           q    == it.qs
           c    == heap[it.cache]
           need == NeedPage(it.offset, request_limit[q], c)
           pg   == cache_page(q, c, it.offset)
           fail == need /\ pg.err # "none"
           c1   == IF need THEN pg.cache ELSE c
           got  == ~fail /\ Cached(c1, it.pos)
           val  == IF got THEN <<IterValue(it.class, c1.data[it.pos])>> ELSE <<>>
       IN /\ heap' = [heap EXCEPT ![it.cache] = c1]
          /\ calls' = IF need THEN pg.calls ELSE <<>>
          /\ iters' = [j \in DOMAIN iters |->
                IF j = i /\ fail
                THEN it
                ELSE IF j = i
                THEN IterStep(it, need, got, val)
                ELSE IF iters[j].qs = q /\ need
                THEN [iters[j] EXCEPT !.alone = FALSE]
                ELSE iters[j]]
          /\ lastOp' = [op |-> "next", qs |-> q, arg |-> <<i>>,
                        err |-> IF fail THEN pg.err ELSE IF got THEN "none" ELSE "StopIteration",
                        new |-> 0, ret |-> val]
    /\ UNCHANGED <<model, applied, srvN, srvMode, qsLive, filters, sorts, request_limit, iterator_class,
                   cache, gens>>

\* ------------------------------------------------------------------------
\* Inputs tried
\* ------------------------------------------------------------------------
Modes == {"exact", "none", "over"}
KeyGt == <<"a", "_", "_", "g", "t">>     \* a__gt
KeyBad == <<"a", "_", "e", "q">>         \* a_eq: no operator delimiter
DeriveFilterCalls == {<<<<KeyGt, One>>>>}
DeriveSortCalls == {<<<<"-", "f">>>>}
FilterCalls == {<<<<KeyGt, One>>>>, <<<<KeyBad, One>>>>}
SortCalls == {<<<<"-", "f">>>>, <<<<"f", "-">>>>}
IndexArgs == (-1)..MaxArg
SliceArgs == {NoneArg} \cup ((-1)..MaxArg)
StepArgs == {NoneArg} \cup ((-1)..2)
SignArgs == {NoneArg, -1, 0, 1}

\* ------------------------------------------------------------------------
\* Specifications
\* ------------------------------------------------------------------------
\* One QuerySet: counting, paging, indexing, and the subscript check of slices
Init == InitWith(0..MaxRecords, Modes, RequestLimits, {StartPlain, StartDerived})

Next ==
    \/ Count(1)
    \/ \E rl \in RequestLimits : SetRequestLimit(1, rl)
    \/ \E o \in 0..MaxArg : CachePage(1, o)
    \/ \E k \in IndexArgs : GetItem(1, k)

Spec == Init /\ [][Next]_vars

\* The subscript operation itself: qs[k] and qs[start:stop:step], unconsumed
InitSubscript == InitWith({MaxRecords}, Modes, RequestLimits, {StartPlain})

NextSubscript ==
    \/ Count(1)
    \/ \E k \in IndexArgs : GetItem(1, k)
    \/ \E g \in GenIds, a \in SignArgs, b \in SignArgs, c \in SignArgs :
          GetSlice(1, g, a, b, c)

SpecSubscript == InitSubscript /\ [][NextSubscript]_vars

\* Deriving QuerySets: filter, order_by, all, values, and paging on any of them
InitClone == InitWith({MaxRecords}, {"exact"}, RequestLimits, {StartPlain})

NextClone ==
    \E q \in QSIds :
        \/ \E kw \in FilterCalls : Filter(q, kw)
        \/ \E a \in SortCalls : OrderBy(q, a)
        \/ All(q)
        \/ Values(q)
        \/ Del(q)
        \/ Count(q)
        \/ \E o \in 0..1 : CachePage(q, o)

SpecClone == InitClone /\ [][NextClone]_vars

\* Consuming qs[start:stop:step]
InitSlice == InitWith(0..MaxRecords, Modes, RequestLimits, {StartPlain})

NextSlice ==
    \/ \E g \in GenIds, a \in SliceArgs, b \in SliceArgs, c \in StepArgs :
          GetSlice(1, g, a, b, c)
    \/ \E g \in GenIds : GenNext(g)

SpecSlice == InitSlice /\ [][NextSlice]_vars

\* Full iteration
InitIter == InitWith(0..MaxRecords, Modes, RequestLimits, {StartPlain, StartDerived})

NextIter ==
    \/ Count(1)
    \/ \E i \in IterIds : Iter(1, i)
    \/ \E i \in IterIds : IterNext(i)

SpecIter == InitIter /\ [][NextIter]_vars

\* Paging against a remote that changes, and that may ignore the limit
PageModes == {"exact", "none", "extra"}
PageSizes == {0, 1, MaxRecords}    \* what the remote holds: nothing, one record, many
InitPage == InitWith(PageSizes, PageModes, RequestLimits, {StartPlain})

NextPage ==
    \/ \E o \in 0..MaxArg : CachePage(1, o)
    \/ \E rl \in RequestLimits : SetRequestLimit(1, rl)
    \/ Count(1)
    \/ Exists(1)
    \/ Bool(1)
    \/ \E n \in PageSizes, m \in PageModes : RemoteChange(n, m)

SpecPage == InitPage /\ [][NextPage]_vars

\* A remote that fails: always, for a while, or for every page but the first
ErrorModes == {"exact", "fail", "fail_deep"}
InitErrors == InitWith({MaxRecords}, ErrorModes, {MaxSmallLimit}, {StartPlain})

NextErrors ==
    \/ Count(1)
    \/ Exists(1)
    \/ CachePage(1, 0)
    \/ \E k \in {0, MaxArg} : GetItem(1, k)
    \/ GetSlice(1, 1, NoneArg, NoneArg, NoneArg)
    \/ GenNext(1)
    \/ Iter(1, 1)
    \/ IterNext(1)
    \/ \E m \in ErrorModes : RemoteChange(srvN, m)

SpecErrors == InitErrors /\ [][NextErrors]_vars

\* The local index errors: reads of the cache and subscripts of the QuerySet
InitIndexErrors == InitWith({MaxRecords}, {"exact"}, RequestLimits, {StartPlain})

NextIndexErrors ==
    \/ Count(1)
    \/ \E o \in 0..MaxArg : CachePage(1, o)
    \/ \E k \in IndexArgs \cup {MaxRecords} : GetItem(1, k)
    \/ \E i \in 0..MaxArg : CacheRead(1, i)

SpecIndexErrors == InitIndexErrors /\ [][NextIndexErrors]_vars

\* Several iterators over one QuerySet, advanced in any order
SharingIds == 1..MaxSharing
InitSharing ==
    InitWithIters({MaxRecords}, {"exact", "none"}, {MaxSmallLimit}, {StartPlain}, SharingIds)

\* (a slot is taken again only once its iterator has ended)
NextSharing ==
    \/ \E i \in SharingIds : iters[i].state # "active" /\ Iter(1, i)
    \/ \E i \in SharingIds : IterNext(i)

SpecSharing == InitSharing /\ [][NextSharing]_vars

\* Full iteration against a remote that changes between calls or reports too few
RemoteModes == {"exact", "under"}
InitRemote == InitWith({MaxRecords}, RemoteModes, {MaxSmallLimit}, {StartPlain})

NextRemote ==
    \/ Iter(1, 1)
    \/ IterNext(1)
    \/ CachePage(1, 0)
    \/ \E n \in 0..MaxRecords, m \in RemoteModes : RemoteChange(n, m)

SpecRemote == InitRemote /\ [][NextRemote]_vars

\* Filter expressions applied to a QuerySet's container and through filter()
KeyLt == <<"a", "_", "_", "l", "t">>     \* a__lt
KeyBEq == <<"b", "_", "_", "e", "q">>    \* b__eq
FilterKwargs ==
    {<<<<KeyGt, One>>>>, <<<<KeyGt, OneFloat>>>>, <<<<KeyLt, One>>>>, <<<<KeyBEq, One>>>>,
     <<<<KeyBad, One>>>>,
     <<<<KeyGt, One>>, <<KeyBEq, One>>>>, <<<<KeyLt, One>>, <<KeyBad, One>>>>}

InitFilters == InitWith({0}, {"exact"}, {default_request_limit}, {StartPlain})

\* (one derived QuerySet at a time)
NextFilters ==
    \/ \E kw \in FilterKwargs : qsLive = {1} /\ Filter(1, kw)
    \/ \E q \in QSIds, kw \in FilterKwargs : ApplyFilters(q, kw)
    \/ \E q \in QSIds : Del(q)

SpecFilters == InitFilters /\ [][NextFilters]_vars

\* Sort expressions applied to a QuerySet's container and through order_by()
SortArgs ==
    {<<<<"f">>>>, <<<<"-", "f">>>>, <<<<"g">>>>, <<<<"-", "g">>>>, <<<<"f", "-">>>>,
     <<<<"-", "f">>, <<"f">>>>, <<<<"f">>, <<"-", "g">>>>, <<<<"g">>, <<"f", "-">>>>}

InitSorts == InitWith({0}, {"exact"}, {default_request_limit}, {StartPlain})

\* (one derived QuerySet at a time)
NextSorts ==
    \/ \E a \in SortArgs : qsLive = {1} /\ OrderBy(1, a)
    \/ \E q \in QSIds, a \in SortArgs : ApplySorts(q, a)
    \/ \E q \in QSIds, a \in SortArgs : MakeSorts(q, a)
    \/ \E q \in QSIds : Del(q)

SpecSorts == InitSorts /\ [][NextSorts]_vars

\* filter() and order_by() given expressions that do not parse, on a QuerySet that is
\* also counted and paged
KeyBadOp == <<"a", "_", "_", "x", "x">>  \* a__xx: no such operator
BadFilterKeys == {KeyBad, KeyBadOp}
BadSortExprs == {<<"f", "-">>, <<"-", "-", "f">>}
InvalidFilterCalls ==
    {<<<<KeyGt, One>>>>, <<<<KeyBad, One>>>>, <<<<KeyBadOp, One>>>>,
     <<<<KeyLt, One>>, <<KeyBad, One>>>>}
InvalidSortCalls ==
    {<<<<"g">>>>, <<<<"f", "-">>>>, <<<<"-", "-", "f">>>>, <<<<"g">>, <<"f", "-">>>>}

InitInvalid == InitWith({MaxRecords}, {"exact"}, {MaxSmallLimit}, {StartPlain, StartDerived})

\* (one derived QuerySet at a time)
NextInvalid ==
    \/ \E kw \in InvalidFilterCalls : qsLive = {1} /\ Filter(1, kw)
    \/ \E a \in InvalidSortCalls : qsLive = {1} /\ OrderBy(1, a)
    \/ \E q \in QSIds : Del(q)
    \/ \E q \in QSIds : Count(q)
    \/ \E q \in QSIds, o \in {0, MaxSmallLimit} : CachePage(q, o)

SpecInvalid == InitInvalid /\ [][NextInvalid]_vars

\* Every sort expression of up to MaxExprLen characters, given to Sorts.apply and
\* Sorts.make
SortChars == {"-", "f", "g"}
SortExprs == UNION {[1..n -> SortChars] : n \in 0..MaxExprLen}

InitSortSyntax == InitWith({0}, {"exact"}, {default_request_limit}, {StartPlain})

\* (apply on a container of at most one sort; make() with no expression empties it)
NextSortSyntax ==
    \/ \E e \in SortExprs : Cardinality(DOMAIN sorts[1]) <= 1 /\ ApplySorts(1, <<e>>)
    \/ \E e \in SortExprs : MakeSorts(1, <<e>>)
    \/ MakeSorts(1, <<>>)

SpecSortSyntax == InitSortSyntax /\ [][NextSortSyntax]_vars

\* Filters with null and non-null values, translated for transport
KeyNe == <<"a", "_", "_", "n", "e">>     \* a__ne
KeyIn == <<"a", "_", "_", "i", "n">>     \* a__in
NullKwargs ==
    {<<<<k, v>>>> : k \in {KeyEq, KeyNe, KeyGt, KeyLt, KeyIn}, v \in {One, NoneVal}}
    \cup {<<<<KeyBEq, NoneVal>>>>}

InitTranslate == InitWith({0}, {"exact"}, {MaxSmallLimit}, {StartPlain, StartDerived})

\* (a QuerySet of up to three filters)
NextTranslate ==
    \/ \E kw \in NullKwargs : Cardinality(applied[1]) < 3 /\ ApplyFilters(1, kw)
    \/ \E o \in {0, MaxSmallLimit} : BuildQ(1, o)

SpecTranslate == InitTranslate /\ [][NextTranslate]_vars

\* One model object: saved, deleted, updated and loaded against an implementation
\* object that may fail
InitModel == InitWith({0}, {"exact"}, {default_request_limit}, {StartPlain})

NextModel ==
    \/ \E raises \in BOOLEAN : ModelDelete(raises)
    \/ \E out \in ImplOutcomes : ModelSave(out)
    \/ \E k \in PkVals \cup {NonePk}, out \in ImplOutcomes : ModelLoad(k, out)
    \/ \E k \in PkVals \cup {NonePk}, v \in BOOLEAN : ModelUpdate(k, v)

SpecModel == InitModel /\ [][NextModel]_vars

\* Reading what is cached: subscripts, slices and full iteration over one QuerySet
\* whose cache fills up on the way
InitReread == InitWith({MaxRecords}, Modes, {MaxSmallLimit}, {StartPlain})

\* (a slot is taken again only once its iterator or generator has ended)
NextReread ==
    \/ \E k \in 0..MaxArg : GetItem(1, k)
    \/ \E a \in {NoneArg, 1} : gens[1].state # "active" /\ GetSlice(1, 1, a, NoneArg, NoneArg)
    \/ GenNext(1)
    \/ iters[1].state # "active" /\ Iter(1, 1)
    \/ IterNext(1)

SpecReread == InitReread /\ [][NextReread]_vars

\* Full iteration to its end against a remote that always reports a finite total but
\* may hold more than it reports, answer with more than was asked, and change
FiniteModes == {"exact", "under", "extra"}
FiniteSizes == {0, MaxRecords}
InitFinite == InitWith(FiniteSizes, FiniteModes, {MaxSmallLimit}, {StartPlain})

\* (the for loop is not abandoned: a new iterator is made once the one before ended)
NextFinite ==
    \/ iters[1].state # "active" /\ Iter(1, 1)
    \/ IterNext(1)
    \/ \E o \in {0, MaxArg} : CachePage(1, o)
    \/ \E n \in FiniteSizes, m \in FiniteModes : RemoteChange(n, m)

\* the for loop keeps calling next() until it raises
SpecFinite == InitFinite /\ [][NextFinite]_vars /\ WF_vars(IterNext(1))

\* Full iteration over a cache left by earlier calls: pages cached at any offset and
\* under different page sizes, counts, subscripts and slices
InitUnaligned == InitWith({MaxRecords}, {"exact"}, 1..MaxSmallLimit, {StartPlain})

\* (a slot is taken again only once its iterator or generator has ended)
NextUnaligned ==
    \/ Count(1)
    \/ \E rl \in 1..MaxSmallLimit : SetRequestLimit(1, rl)
    \/ \E o \in 0..MaxArg : CachePage(1, o)
    \/ \E k \in 0..MaxArg : GetItem(1, k)
    \/ gens[1].state # "active" /\ GetSlice(1, 1, 1, NoneArg, NoneArg)
    \/ GenNext(1)
    \/ iters[1].state # "active" /\ Iter(1, 1)
    \/ IterNext(1)

SpecUnaligned == InitUnaligned /\ [][NextUnaligned]_vars

\* Derived QuerySets whose source changes its page size afterwards, iterated
InitDerive == InitWith({1}, {"exact"}, {default_request_limit}, {StartPlain, StartDerived})

NextDerive ==
    \/ \E q \in QSIds :
          \/ \E kw \in DeriveFilterCalls : Filter(q, kw)
          \/ \E a \in DeriveSortCalls : OrderBy(q, a)
          \/ All(q)
          \/ Values(q)
          \/ Del(q)
          \/ SetRequestLimit(q, MaxSmallLimit)
          \/ iters[1].state # "active" /\ Iter(q, 1)
    \/ IterNext(1)

SpecDerive == InitDerive /\ [][NextDerive]_vars

\* ------------------------------------------------------------------------
\* Claims
\* ------------------------------------------------------------------------
DerivingOps == {"filter", "order_by", "all", "values"}

\* C1: filter, order_by, all and values return a new QuerySet object, make no
\* record-fetch call, and leave the filters, sorts, request_limit, cached records and
\* total_count of the QuerySet they were called on as they were.
C1_DerivingLeavesSource ==
    [][lastOp'.op \in DerivingOps =>
        LET q == lastOp'.qs
        IN /\ calls' = <<>>
           /\ filters'[q] = filters[q]
           /\ sorts'[q] = sorts[q]
           /\ request_limit'[q] = request_limit[q]
           /\ cache'[q] = cache[q]
           /\ heap'[cache[q]] = heap[cache[q]]
           /\ lastOp'.err = "none" => lastOp'.new \notin qsLive /\ lastOp'.new \in qsLive'
    ]_vars

\* a QuerySet with cached records and a known total has been filtered into a new one
C1_Witness ==
    /\ lastOp.op = "filter" /\ lastOp.err = "none"
    /\ lastOp.new # lastOp.qs
    /\ heap[cache[lastOp.qs]].data # EmptyData
    /\ heap[cache[lastOp.qs]].total_count = srvN
    /\ filters[lastOp.new] # filters[lastOp.qs]

\* C2: the QuerySet returned by filter/order_by/all/values starts with an empty cache
\* and no total_count, its cache object is no other QuerySet's, and a cache_page (also
\* the one inside count) on one QuerySet changes no other QuerySet's cache.
C2_FreshUnsharedCache ==
    [][/\ (lastOp'.op \in DerivingOps /\ lastOp'.err = "none") =>
            /\ heap'[cache'[lastOp'.new]] = NewCache
            /\ \A p \in qsLive : cache'[lastOp'.new] # cache[p]
       /\ lastOp'.op \in {"cache_page", "count"} =>
            \A p \in qsLive \ {lastOp'.qs} : heap'[cache[p]] = heap[cache[p]]
    ]_vars

\* a page was cached on a derived QuerySet whose source holds other content
C2_Witness ==
    /\ lastOp.op = "cache_page" /\ lastOp.qs # 1 /\ lastOp.arg = <<1>>
    /\ heap[cache[1]].data # EmptyData
    /\ heap[cache[lastOp.qs]].data # heap[cache[1]].data

\* C3: count() makes exactly one record-fetch call, at offset 0 with limit
\* request_limit, when total_count is absent, and none when it is set; it returns the
\* cache's total_count.
C3_CountFetchesOnce ==
    [][lastOp'.op = "count" =>
        LET q == lastOp'.qs
            c == heap[cache[q]]
        IN /\ lastOp'.ret = <<heap'[cache[q]].total_count>>
           /\ c.total_count = NoneTC =>
                /\ Len(calls') = 1
                /\ calls'[1].offset = 0
                /\ calls'[1].limit = request_limit[q]
           /\ c.total_count # NoneTC => calls' = <<>> /\ heap' = heap
    ]_vars

\* count() answered the infinite total without fetching
C3_Witness ==
    /\ lastOp.op = "count" /\ calls = <<>>
    /\ lastOp.ret = <<Inf>>

\* C4 (as claimed): for every request_limit and every index i below count() that the
\* server holds, qs[i] returns the materialized i-th record of the server.
C4_IndexReturnsRecord ==
    (lastOp.op = "getitem" /\ lastOp.arg[1] >= 0 /\ lastOp.arg[1] < srvN
        /\ Below(lastOp.arg[1], heap[cache[lastOp.qs]].total_count))
    => (lastOp.err = "none" /\ lastOp.ret = <<new_model(Record(lastOp.arg[1]))>>)

\* C5: qs[i] with i >= count(), count finite, raises IndexError and returns no object,
\* whether the count was known before the call or fetched by it.
C5_IndexOutOfRange ==
    [][lastOp'.op = "getitem" =>
        LET q  == lastOp'.qs
            k  == lastOp'.arg[1]
            tc == count(q, heap[cache[q]]).cache.total_count
        IN (k >= 0 /\ tc # Inf /\ k >= tc) => (lastOp'.err = "IndexError" /\ lastOp'.ret = <<>>)
    ]_vars

\* an index at the count was refused by a call that had to fetch the count itself
C5_Witness ==
    /\ lastOp.op = "getitem" /\ lastOp.err = "IndexError"
    /\ Len(calls) = 1
    /\ srvMode = "exact" /\ srvN > 0 /\ lastOp.arg = <<srvN>>

\* C6: a negative index, and a slice with a negative start, a negative stop or a
\* step <= 0, fail with AssertionError in the subscript operation itself: no generator
\* is made, no record-fetch call is issued and the cache is unchanged.
C6_NegativeSubscript ==
    [][((lastOp'.op = "getitem" /\ lastOp'.arg[1] < 0)
        \/ (lastOp'.op = "getslice"
            /\ \/ (lastOp'.arg[1] # NoneArg /\ lastOp'.arg[1] < 0)
               \/ (lastOp'.arg[2] # NoneArg /\ lastOp'.arg[2] < 0)
               \/ (lastOp'.arg[3] # NoneArg /\ lastOp'.arg[3] <= 0)))
       => /\ lastOp'.err = "AssertionError"
          /\ lastOp'.ret = <<>>
          /\ calls' = <<>>
          /\ heap' = heap
          /\ gens' = gens
    ]_vars

\* a slice whose only fault is a step of 0 was refused on a QuerySet with cached records
C6_Witness ==
    /\ lastOp.op = "getslice" /\ lastOp.err = "AssertionError"
    /\ lastOp.arg = <<0, NoneArg, 0>>
    /\ heap[cache[lastOp.qs]].data # EmptyData

\* C10: every cache_page(offset) makes exactly one get_list call, with the QuerySet's
\* filters, its sorts and Pagination(limit = request_limit, offset = offset); every
\* call any operation issues carries the restrictions the QuerySet holds.
C10_FetchArguments ==
    /\ \A j \in 1..Len(calls) :
          /\ calls[j].qs = lastOp.qs
          /\ calls[j].filters = filters[lastOp.qs]
          /\ calls[j].sorts = sorts[lastOp.qs]
          /\ calls[j].limit = request_limit[lastOp.qs]
    /\ lastOp.op = "cache_page" => Len(calls) = 1 /\ calls[1].offset = lastOp.arg[1]
    /\ lastOp.op = "count" => \A j \in 1..Len(calls) : calls[j].offset = 0

\* cache_page(2) fetched with a non-default limit and non-empty filters and sorts
C10_Witness ==
    /\ lastOp.op = "cache_page" /\ lastOp.arg = <<2>>
    /\ Len(calls) = 1
    /\ calls[1].limit = 2 /\ calls[1].offset = 2
    /\ calls[1].filters # NoRestrictions /\ calls[1].sorts # NoRestrictions

\* R[start:stop:step] of the server's records, materialized
ExpectedSlice(start, stop, step) ==
    LET hi  == IF stop = NoneArg THEN srvN ELSE Min(stop, srvN)
        cnt == IF hi > start THEN ((hi - start - 1) \div step) + 1 ELSE 0
    IN [j \in 1..cnt |-> new_model(Record(start + (j - 1) * step))]

\* C7 (as claimed): for every valid start, stop, step and every request_limit, what
\* qs[start:stop:step] has yielded when it ends is R[start:stop:step], in order.
C7_SliceYieldsRange ==
    \A g \in GenIds :
        gens[g].state = "done"
        => gens[g].yielded = ExpectedSlice(gens[g].start, gens[g].stop, gens[g].step)

\* the materialized or raw records 0..N-1 of the server, as an iterator of the class yields them
AllRecords(class) == [j \in 1..srvN |-> IterValue(class, Record(j - 1))]
\* the offsets 0, rl, 2*rl, ... below n
Pages(n, rl) == [j \in 1..((n + rl - 1) \div rl) |-> (j - 1) * rl]
\* the offsets rl, 2*rl, ... below n
PagesAfterFirst(n, rl) == [j \in 1..(Max(1, (n + rl - 1) \div rl) - 1) |-> j * rl]

\* an iterator that ran to its end as the only user of its QuerySet, over a server
\* that reports its exact total, started on an empty cache or right after count()
FinishedPass(i) ==
    /\ iters[i].state = "done"
    /\ iters[i].alone
    /\ srvMode = "exact"
    /\ iters[i].pre \in {"fresh", "counted"}

\* C8 (as claimed): one full iteration of a fresh QuerySet over N records with total N
\* yields records 0..N-1 in order, once each, and fetches exactly the pages at offsets
\* 0, request_limit, 2*request_limit, ... below N, once each; after count(), and with
\* N <= request_limit, it fetches nothing.
C8_IterationAsClaimed ==
    \A i \in IterIds :
        FinishedPass(i) =>
            LET rl == request_limit[iters[i].qs]
            IN /\ iters[i].yielded = AllRecords(iters[i].class)
               /\ iters[i].pre = "fresh" => iters[i].fetched = Pages(srvN, rl)
               /\ iters[i].pre = "counted" => iters[i].fetched = PagesAfterFirst(srvN, rl)

\* C8 (amended): as claimed, except that over an empty collection (N = 0) a fresh
\* QuerySet still fetches the page at offset 0 once, to learn the total.
C8_Iteration ==
    \A i \in IterIds :
        FinishedPass(i) =>
            LET rl == request_limit[iters[i].qs]
            IN /\ iters[i].yielded = AllRecords(iters[i].class)
               /\ iters[i].pre = "fresh" => iters[i].fetched = Pages(Max(srvN, 1), rl)
               /\ iters[i].pre = "counted" => iters[i].fetched = PagesAfterFirst(srvN, rl)
               /\ (iters[i].pre = "counted" /\ srvN <= rl) => iters[i].fetched = <<>>

\* a pass over a fresh QuerySet that took two pages and ended on a short one
C8_Witness ==
    \E i \in IterIds :
        /\ FinishedPass(i)
        /\ iters[i].pre = "fresh"
        /\ srvN = 3 /\ request_limit[iters[i].qs] = 2
        /\ iters[i].fetched = <<0, 2>>
        /\ Len(iters[i].yielded) = 3

\* C9 (as claimed): over a server that reports no total, or a total above what it
\* holds, full iteration and slice iteration go on page after page and end, with no
\* error, once everything the server holds (in the slice's range) has been yielded.
C9_EndsAfterLastRecord ==
    srvMode \in {"none", "over"} =>
        /\ \A i \in IterIds :
              (iters[i].state = "done" /\ iters[i].alone /\ iters[i].pre = "fresh")
              => (iters[i].yielded = AllRecords(iters[i].class) /\ lastOp.err # "IndexError")
        /\ \A g \in GenIds :
              gens[g].state = "done"
              => /\ gens[g].yielded = ExpectedSlice(gens[g].start, gens[g].stop, gens[g].step)
                 /\ lastOp.err # "IndexError"

\* the answer the remote gave to the last get_list call of the step just taken
LastAnswer == get_list(srvN', srvMode', calls'[Len(calls')].offset, calls'[Len(calls')].limit)

\* C11: after cache_page(o) with response records r, index o+j holds r[j] for every
\* j < min(len(r), request_limit); no index outside [o, o+request_limit) is written or
\* changed, also when the response holds more than request_limit records; no entry
\* appears at a position the response did not fill.
C11_PageWrite ==
    [][(lastOp'.op = "cache_page" /\ lastOp'.err = "none") =>
        LET q   == lastOp'.qs
            o   == lastOp'.arg[1]
            rl  == request_limit[q]
            r   == LastAnswer.records
            old == heap[cache[q]].data
            new == heap'[cache[q]].data
        IN /\ \A j \in 0..(Min(Len(r), rl) - 1) :
                 (o + j) \in DOMAIN new /\ new[o + j] = r[j + 1]
           /\ \A i \in (DOMAIN old) \cup (DOMAIN new) :
                 (i < o \/ i >= o + rl)
                 => (i \in DOMAIN old /\ i \in DOMAIN new /\ new[i] = old[i])
           /\ \A i \in DOMAIN new : i >= o + Len(r) => i \in DOMAIN old
    ]_vars

\* cache_page(2) with page size 1 took one record of a longer answer and left the
\* record cached at index 0 alone
C11_Witness ==
    /\ lastOp.op = "cache_page" /\ lastOp.arg = <<2>> /\ lastOp.err = "none"
    /\ request_limit[1] = 1
    /\ srvMode = "extra" /\ srvN = MaxRecords
    /\ DOMAIN heap[cache[1]].data = {0, 2}

\* C12: every completed cache_page (also the one inside count) leaves total_count at
\* the total of its response, or at Inf when the response reports none, whatever it
\* was before; an operation that fetches nothing leaves it alone; count() returns it.
C12_TotalOfLastFetch ==
    [][LET tc == heap[cache[1]].total_count
           tn == heap'[cache[1]].total_count
       IN /\ (calls' # <<>> /\ lastOp'.err = "none") =>
                tn = (IF LastAnswer.total_count # NoneTC THEN LastAnswer.total_count ELSE Inf)
          /\ calls' = <<>> => tn = tc
          /\ lastOp'.op = "count" => lastOp'.ret = <<tn>>
    ]_vars

\* a fetch brought the total down to 1 on a cache that holds index 3 from a time the
\* remote reported more
C12_Witness ==
    /\ lastOp.op = "cache_page" /\ lastOp.err = "none"
    /\ srvMode = "exact" /\ srvN = 1
    /\ heap[cache[1]].total_count = 1
    /\ 3 \in DOMAIN heap[cache[1]].data

\* C13: exists() and bool(qs) return False when count() is 0 and True otherwise, Inf
\* included; they fetch at most once, and only when total_count was None.
C13_Exists ==
    [][lastOp'.op \in {"exists", "bool"} =>
        LET q  == lastOp'.qs
            tc == heap[cache[q]].total_count
            tn == heap'[cache[q]].total_count
        IN /\ tn = 0 => lastOp'.ret = <<FALSE>>
           /\ (tn > 0 \/ tn = Inf) => lastOp'.ret = <<TRUE>>
           /\ tn # NoneTC
           /\ Len(calls') <= 1
           /\ calls' # <<>> => tc = NoneTC
           /\ tc # NoneTC => heap' = heap
    ]_vars

\* exists() answered True for an infinite count without fetching
C13_Witness ==
    /\ lastOp.op = "exists" /\ lastOp.ret = <<TRUE>>
    /\ calls = <<>>
    /\ heap[cache[1]].total_count = Inf

\* C16: set_request_limit(n) sets the page size of that QuerySet to n and returns the
\* QuerySet; it fetches nothing and leaves cached records, total_count and everything
\* else alone. No other operation changes the page size, so every later cache_page
\* asks for limit n and writes only inside [offset, offset+n).
C16_SetRequestLimit ==
    [][/\ lastOp'.op = "set_request_limit" =>
            LET q == lastOp'.qs
            IN /\ request_limit'[q] = lastOp'.arg[1]
               /\ \A p \in QSIds \ {q} : request_limit'[p] = request_limit[p]
               /\ lastOp'.ret = <<q>>
               /\ calls' = <<>>
               /\ heap' = heap /\ cache' = cache
               /\ filters' = filters /\ sorts' = sorts /\ iterator_class' = iterator_class
       /\ lastOp'.op # "set_request_limit" => request_limit' = request_limit
       /\ lastOp'.op = "cache_page" =>
            LET q == lastOp'.qs
                o == lastOp'.arg[1]
            IN /\ calls'[1].limit = request_limit'[q]
               /\ \A i \in (DOMAIN heap'[cache[q]].data) \ (DOMAIN heap[cache[q]].data) :
                     i >= o /\ i < o + request_limit'[q]
    ]_vars

\* the page size was set to 1 on a QuerySet that holds a whole page of the default
\* size and its total
C16_Witness ==
    /\ lastOp.op = "set_request_limit" /\ lastOp.arg = <<1>>
    /\ request_limit[1] = 1
    /\ srvN = MaxRecords
    /\ DOMAIN heap[cache[1]].data = 0..(MaxRecords - 1)
    /\ heap[cache[1]].total_count = srvN

\* C14 (as claimed): when the fetch raises inside count, exists, indexing, slicing or
\* iteration, the operation has made exactly one get_list call and the cached records
\* and total_count are what they were before the operation.
C14_FetchErrorAsClaimed ==
    [][lastOp'.err = "FetchError" => (Len(calls') = 1 /\ heap' = heap)]_vars

\* C14 (amended): a fetch that raises ends the operation with that error, so it is the
\* last get_list call of the operation and is made once; the cache_page it was made by
\* changes nothing. Only a fetch the same operation completed before it (the count()
\* at the head of qs[i] and of a slice step) has left its page and total in the cache.
C14_FetchError ==
    [][/\ \A j \in 1..Len(calls') :
             FetchFails(srvMode, calls'[j].offset)
             => (j = Len(calls') /\ lastOp'.err = "FetchError")
       /\ lastOp'.err = "FetchError" =>
            LET q == lastOp'.qs
                k == Len(calls')
            IN /\ k \in {1, 2}
               /\ FetchFails(srvMode, calls'[k].offset)
               /\ lastOp'.ret = <<>>
               /\ k = 1 => heap' = heap
               /\ k = 2 => /\ calls'[1].offset = 0
                           /\ heap[cache[q]].total_count = NoneTC
                           /\ heap'[cache[q]] = cache_page(q, heap[cache[q]], 0).cache
    ]_vars

\* qs[i] learnt the count with one fetch and failed on the fetch of the page
C14_Witness ==
    /\ lastOp.op = "getitem" /\ lastOp.err = "FetchError"
    /\ Len(calls) = 2
    /\ srvMode = "fail_deep"
    /\ heap[cache[1]].total_count = srvN

\* C15 (as claimed): the error of a read of a cache index never written, the error of
\* a negative subscript and the error of qs[i] with i >= count() are three different
\* kinds.
C15_DistinctErrorKinds ==
    /\ (lastOp.op = "cache_read" /\ lastOp.err # "none")
       => lastOp.err \notin {"IndexError", "AssertionError"}
    /\ (lastOp.op = "getitem" /\ lastOp.arg[1] >= 0
        /\ heap[cache[lastOp.qs]].total_count >= 0
        /\ lastOp.arg[1] >= heap[cache[lastOp.qs]].total_count)
       => lastOp.err \notin {CacheMissError, "AssertionError"}
    /\ (lastOp.op = "getitem" /\ lastOp.arg[1] < 0)
       => lastOp.err \notin {CacheMissError, "IndexError"}

\* s is the first Len(s) elements of t
IsPrefix(s, t) == Len(s) <= Len(t) /\ s = SubSeq(t, 1, Len(s))

\* C17: iterators obtained from the same QuerySet and advanced in any interleaving
\* each yield the records from index 0 on, in order, and all of them by the time they
\* end; when the remote reports its exact total a complete pass leaves every record
\* and the total cached, and an iterator requested on such a cache yields the same
\* sequence again without any fetch.
C17_IteratorOwnsPosition ==
    \A i \in DOMAIN iters :
        /\ iters[i].state # "free" => IsPrefix(iters[i].yielded, AllRecords(iters[i].class))
        /\ iters[i].state = "done" => iters[i].yielded = AllRecords(iters[i].class)
        /\ (iters[i].state = "done" /\ srvMode = "exact")
           => /\ heap[iters[i].cache].total_count = srvN
              /\ DOMAIN heap[iters[i].cache].data = 0..(srvN - 1)
        /\ (iters[i].state = "done" /\ srvMode = "exact"
            /\ (iters[i].pre = "full"
                \/ (iters[i].pre = "counted" /\ srvN <= request_limit[iters[i].qs])))
           => iters[i].fetched = <<>>

\* two iterators over the same QuerySet ran to their ends in turns, each fetching one
\* of the two pages, and a later one repeated the pass without a fetch
C17_Witness ==
    /\ srvMode = "exact" /\ request_limit[1] = MaxSmallLimit
    /\ iters[1].state = "done" /\ iters[1].pre = "full" /\ iters[1].fetched = <<>>
    /\ iters[2].state = "done" /\ iters[2].pre = "fresh" /\ iters[2].fetched # <<>>
    /\ Len(iters[2].fetched) < Len(Pages(srvN, request_limit[1]))
    /\ iters[1].yielded = iters[2].yielded
    /\ Len(iters[1].yielded) = srvN

\* C18 (as claimed): whatever the remote answered, a full iteration that ends with a
\* finite count() has yielded at most count() items.
C18_BoundedByCount ==
    \A i \in DOMAIN iters :
        (lastOp.op = "next" /\ lastOp.arg = <<i>> /\ lastOp.err = "StopIteration"
         /\ heap[iters[i].cache].total_count >= 0)
        => Len(iters[i].yielded) <= heap[iters[i].cache].total_count

\* every way of writing the set S as a sequence without repetition
Orderings(S) == {sq \in [1..Cardinality(S) -> S] : Range(sq) = S}

\* the filter an expression <<key, value>> stands for
FilterOf(e) == FilterMakeObject(e[1], e[2]).obj

\* C19: the filters a QuerySet holds for a field are exactly the distinct filters
\* applied so far for that field, through Filters.apply or QuerySet.filter: a different
\* expression on the field is added, an identical one is kept once; and the container
\* equals a Filters container built directly with the same expressions, in any order.
C19_FiltersAccumulate ==
    \A q \in qsLive :
        LET objs == {FilterOf(e) : e \in applied[q]}
        IN /\ DOMAIN filters[q] = {o.field_name : o \in objs}
           /\ \A f \in DOMAIN filters[q] : filters[q][f] = {o \in objs : o.field_name = f}
           /\ Cardinality(objs) = Cardinality(applied[q])
           /\ \A sq \in Orderings(applied[q]) :
                 FiltersApply(NoRestrictions, sq).data = filters[q]

\* filter() on a QuerySet that holds filters repeated one of its expressions and added
\* another: the new QuerySet holds each once, two of them on the same field
C19_Witness ==
    /\ lastOp.op = "filter" /\ lastOp.err = "none"
    /\ Range(lastOp.arg) \cap applied[lastOp.qs] # {}
    /\ Range(lastOp.arg) \ applied[lastOp.qs] # {}
    /\ \E f \in DOMAIN filters[lastOp.new] : Cardinality(filters[lastOp.new][f]) = 3
    /\ Cardinality(applied[lastOp.new]) = 4

\* the field and the direction a sort expression names
SortFieldOf(expr) == IF expr # <<>> /\ expr[1] = "-" THEN Tail(expr) ELSE expr
SortDirectionOf(expr) == IF expr # <<>> /\ expr[1] = "-" THEN "Descending" ELSE "Ascending"

\* the expressions of args that apply() got to make before it met a bad one
RECURSIVE MadeSorts(_)
MadeSorts(args) ==
    IF args = <<>> THEN <<>>
    ELSE IF SortMakeObject(args[1]).err # "none" THEN <<>>
    ELSE <<args[1]>> \o MadeSorts(Tail(args))

\* C20: after any Sorts.apply, Sorts.make or QuerySet.order_by, every field of the
\* sorts container maps to exactly one Sort, of that field, whose direction is that of
\* the last expression applied for the field; apply and order_by leave the sorts of
\* the fields they do not name as they were, make keeps only the fields it names.
C20_OneSortPerField ==
    [][/\ \A q \in qsLive' : \A f \in DOMAIN sorts'[q] :
             \E o \in sorts'[q][f] :
                 sorts'[q][f] = {o} /\ o.field_name = f
                 /\ o.direction \in {"Ascending", "Descending"}
       /\ (lastOp'.op \in {"sorts_apply", "sorts_make"}
           \/ (lastOp'.op = "order_by" /\ lastOp'.err = "none")) =>
            LET src  == lastOp'.qs
                tgt  == IF lastOp'.op = "order_by" THEN lastOp'.new ELSE src
                base == IF lastOp'.op = "sorts_make" THEN NoRestrictions ELSE sorts[src]
                made == MadeSorts(lastOp'.arg)
                flds == {SortFieldOf(made[j]) : j \in DOMAIN made}
                last(f) == CHOOSE j \in DOMAIN made :
                              /\ SortFieldOf(made[j]) = f
                              /\ \A k \in DOMAIN made : SortFieldOf(made[k]) = f => k <= j
            IN /\ DOMAIN sorts'[tgt] = (DOMAIN base) \cup flds
               /\ \A f \in flds :
                     sorts'[tgt][f] = {[field_name |-> f,
                                        direction  |-> SortDirectionOf(made[last(f)])]}
               /\ \A f \in (DOMAIN base) \ flds : sorts'[tgt][f] = base[f]
    ]_vars

\* order_by('f') on a QuerySet sorted by -f and g: the new QuerySet sorts f ascending
\* and g as before
C20_Witness ==
    /\ lastOp.op = "order_by" /\ lastOp.err = "none" /\ lastOp.arg = <<<<"f">>>>
    /\ sorts[lastOp.qs] = SortsApply(NoRestrictions, <<<<"-", "f">>, <<"g">>>>).data
    /\ sorts[lastOp.new] = SortsApply(NoRestrictions, <<<<"f">>, <<"g">>>>).data

\* the call names an expression that does not parse
HasInvalidExpr(op, arg) ==
    \/ op = "filter" /\ \E j \in DOMAIN arg : arg[j][1] \in BadFilterKeys
    \/ op = "order_by" /\ \E j \in DOMAIN arg : arg[j] \in BadSortExprs

\* restrictions that hold only well-formed filters and sorts
WellFormed(f, s) ==
    /\ \A k \in DOMAIN f : \A o \in f[k] :
          o.field_name = k
          /\ o.op \in {"Equal", "LessThan", "GreaterThan", "NotEqual", "In"}
    /\ \A k \in DOMAIN s : \A o \in s[k] :
          o.field_name = k /\ o.direction \in {"Ascending", "Descending"}

AcceptedSortForm(expr) ==
    /\ SortFieldOf(expr) # <<>>
    /\ \A j \in DOMAIN SortFieldOf(expr) : SortFieldOf(expr)[j] # "-"

\* C22 (as claimed): Sorts.make and Sorts.apply raise ValueError for every expression
\* that is empty, has an empty field name (a lone '-' included), holds two or more
\* dashes or a dash after the field name; they accept exactly 'f' (ascending) and '-f'
\* (descending) with f not empty and free of dashes.
C22_SortSyntax ==
    (lastOp.op \in {"sorts_apply", "sorts_make"} /\ lastOp.arg # <<>>) =>
        LET e == lastOp.arg[1]
        IN /\ ~AcceptedSortForm(e) => lastOp.err = "ValueError"
           /\ AcceptedSortForm(e) =>
                /\ lastOp.err = "none"
                /\ SortFieldOf(e) \in DOMAIN sorts[1]
                /\ sorts[1][SortFieldOf(e)] =
                      {[field_name |-> SortFieldOf(e), direction |-> SortDirectionOf(e)]}

\* the filters a container holds, of all fields
FiltersHeld(d) == UNION {d[k] : k \in DOMAIN d}
\* a filter with a null value and an operator other than Equal and NotEqual
NullRefused(f) == f.val = NoneVal /\ f.op \notin {"Equal", "NotEqual"}

\* C23: a filter with a null value is accepted when it is built, for each of the five
\* operators; translated for transport, Equal with null becomes is_null and NotEqual
\* with null is_not_null, both without a value, every filter with a value goes out
\* with its operator and value, and a null value with any other operator makes the
\* translation fail with an AdapterError that names that field and operator, and no
\* query is produced.
C23_NullValue ==
    [][/\ lastOp'.op = "filters_apply" =>
            /\ lastOp'.err = "none"
            /\ FilterOf(lastOp'.arg[1]) \in FiltersHeld(filters'[lastOp'.qs])
            /\ FilterOf(lastOp'.arg[1]).val = lastOp'.arg[1][2]
       /\ lastOp'.op = "build_q" =>
            LET fs == FiltersHeld(filters[lastOp'.qs])
            IN /\ (\E f \in fs : NullRefused(f)) =>
                    /\ lastOp'.err = "AdapterError"
                    /\ \E f \in fs : /\ NullRefused(f)
                                      /\ lastOp'.ret = <<[op |-> f.op, field |-> f.field_name]>>
               /\ ~(\E f \in fs : NullRefused(f)) =>
                    /\ lastOp'.err = "none"
                    /\ lastOp'.ret[1].filters =
                          {IF f.val = NoneVal
                           THEN [name |-> f.field_name,
                                 op   |-> IF f.op = "Equal" THEN "is_null" ELSE "is_not_null"]
                           ELSE [name |-> f.field_name, op |-> restless_filters(f.op),
                                 val |-> f.val] : f \in fs}
    ]_vars

\* a QuerySet filtered by a__eq=1, a__eq=None and b__eq=None was translated: two
\* is_null filters without a value and one eq filter with its value
C23_Witness ==
    /\ lastOp.op = "build_q" /\ lastOp.err = "none"
    /\ applied[1] = {<<KeyEq, One>>, <<KeyEq, NoneVal>>, <<KeyBEq, NoneVal>>}
    /\ lastOp.ret[1].filters =
          {[name |-> <<"a">>, op |-> "eq", val |-> One],
           [name |-> <<"a">>, op |-> "is_null"],
           [name |-> <<"b">>, op |-> "is_null"]}

\* C24 (as claimed): once delete() has succeeded, save() and delete() raise ModelError
\* and make no call to the implementation object, until update() or load() clears the
\* deleted flag; delete() on a model whose primary key is not set raises ModelError,
\* makes no call and leaves the model not deleted.
C24_ReadOnlyAfterDelete ==
    [][/\ (lastOp'.op = "model_delete" /\ lastOp'.err = "none") => model'.deleted
       /\ (lastOp'.op \in {"model_save", "model_delete"} /\ model.deleted) =>
            /\ lastOp'.err = "ModelError"
            /\ calls' = <<>>
            /\ model' = model
       /\ (model.deleted /\ ~model'.deleted) => lastOp'.op \in {"model_update", "model_load"}
       /\ lastOp'.op = "model_update" => ~model'.deleted
       /\ (lastOp'.op = "model_load" /\ lastOp'.err = "none") => ~model'.deleted
       /\ (lastOp'.op = "model_delete" /\ ~model.deleted /\ model.pk \notin PkVals) =>
            /\ lastOp'.err = "ModelError"
            /\ calls' = <<>>
            /\ ~model'.deleted
    ]_vars

\* C25 (as claimed): qs[c] that finds index c missing from the cache makes exactly one
\* cache_page call, for the page that holds c, at offset floor(c / request_limit) *
\* request_limit, whatever the request_limit, and then reads index c once more.
C25_MissFetchesOwnPage ==
    [][lastOp'.op = "getitem" =>
        LET q  == lastOp'.qs
            c  == lastOp'.arg[1]
            rl == request_limit[q]
            n  == count(q, heap[cache[q]])
            pg == cache_page(q, n.cache, (c \div rl) * rl)
        IN (c >= 0 /\ Below(c, n.cache.total_count) /\ ~Cached(n.cache, c)) =>
              /\ calls' = n.calls \o <<fetch_page(q, (c \div rl) * rl, rl)>>
              /\ heap'[cache[q]] = pg.cache
              /\ Cached(pg.cache, c) => lastOp'.ret = <<new_model(pg.cache.data[c])>>
    ]_vars

\* the index a reading operation asks the cache for: k of qs[k], the position of the
\* slice generator, the offset of the iterator
IndexRead(op, arg) ==
    CASE op = "getitem"  -> arg[1]
      [] op = "gen_next" -> gens[arg[1]].c
      [] op = "next"     -> iters[arg[1]].offset

\* every index below a finite total is cached
FullyCached(c) ==
    c.total_count >= 0 /\ \A j \in 0..(c.total_count - 1) : Cached(c, j)

\* C26: qs[k], a step of a slice and a step of full iteration fetch only for what the
\* cache lacks: at most one call for an absent total_count and at most one for the
\* index asked for, made only if that index is absent from the cache; on a cache that
\* holds every index below a finite total they make no call and change nothing in it.
C26_FetchOnlyOnMiss ==
    [][lastOp'.op \in {"getitem", "gen_next", "next"} =>
        LET q   == lastOp'.qs
            c   == IF lastOp'.op = "next" THEN heap[iters[lastOp'.arg[1]].cache]
                   ELSE heap[cache[q]]
            idx == IndexRead(lastOp'.op, lastOp'.arg)
            n   == IF lastOp'.op = "next" THEN [cache |-> c, calls |-> <<>>]
                   ELSE count(q, c)
        IN /\ Len(calls') <= Len(n.calls) + 1
           /\ n.calls # <<>> => c.total_count = NoneTC
           /\ Len(calls') > Len(n.calls) =>
                 /\ ~Cached(n.cache, idx)
                 /\ ~Cached(c, idx)
           /\ FullyCached(c) => (calls' = <<>> /\ heap' = heap)
    ]_vars

\* a full iteration ran to its end over a cache that held all four records and the
\* total when it was made, and fetched nothing
C26_Witness ==
    /\ lastOp.op = "next" /\ lastOp.err = "StopIteration"
    /\ iters[1].pre = "full" /\ iters[1].fetched = <<>>
    /\ Len(iters[1].yielded) = MaxRecords
    /\ FullyCached(heap[cache[1]])

C28_OnlyCachePageWrites ==
    /\ [](\A r \in DOMAIN heap : heap[r].total_count = NoneTC => heap[r].data = EmptyData)
    /\ [][\A r \in DOMAIN heap :
            /\ heap'[r] # heap[r] =>
                  /\ r = cache[lastOp'.qs]
                  /\ lastOp'.op \in {"cache_page", "count", "exists", "getitem", "gen_next", "next"}
                  /\ \E j \in 1..Len(calls') : ~FetchFails(srvMode, calls'[j].offset)
            /\ DOMAIN heap[r].data \subseteq DOMAIN heap'[r].data
            /\ heap[r].total_count # NoneTC => heap'[r].total_count # NoneTC
         ]_vars

\* the first fetch of a QuerySet failed inside count(): its cache is still empty and
\* its total_count still None
C28_Witness ==
    /\ lastOp.op = "count" /\ lastOp.err = "FetchError"
    /\ Len(calls) = 1
    /\ heap[cache[1]] = NewCache

\* C29 (as claimed): over an unchanging server that holds N records and reports total
\* N, whatever count(), qs[i], slice, set_request_limit and cache_page calls came
\* before, a full iteration run to its end on its own has yielded exactly records
\* 0..N-1 in order.
C29_IterationAfterAnyCalls ==
    \A i \in DOMAIN iters :
        (iters[i].state = "done" /\ iters[i].alone /\ srvMode = "exact")
        => iters[i].yielded = AllRecords(iters[i].class)

CloneOps == {"filter", "order_by", "all", "values"}

\* every record an iterator over q has handed out is a raw record
YieldsRaw(q) ==
    \A i \in DOMAIN iters :
        iters[i].qs = q
        => \A j \in 1..Len(iters[i].yielded) :
              /\ iters[i].yielded[j] # new_model(Record(j - 1))
              /\ iters[i].yielded[j] = Record(j - 1)

\* C30: a QuerySet made by filter/order_by/all/values has the request_limit its source
\* had at that call and, when the call was values() or the source already yielded
\* raw records, the raw-record iterator; afterwards its iterator class never changes
\* and its request_limit changes only by its own set_request_limit, so that a
\* set_request_limit on the source leaves it alone; its pages are requested with its
\* own request_limit and its iteration hands out raw records.
C30_DerivedKeepsSettings ==
    /\ [](\A q \in qsLive : iterator_class[q] = "ValuesIterator" => YieldsRaw(q))
    /\ [][ /\ (lastOp'.op \in CloneOps /\ lastOp'.err = "none")
              => /\ lastOp'.new \notin qsLive
                 /\ request_limit'[lastOp'.new] = request_limit[lastOp'.qs]
                 /\ (lastOp'.op = "values" \/ iterator_class[lastOp'.qs] = "ValuesIterator")
                       => iterator_class'[lastOp'.new] = "ValuesIterator"
            /\ \A p \in qsLive \cap qsLive' :
                 /\ iterator_class'[p] = iterator_class[p]
                 /\ request_limit'[p] # request_limit[p]
                       => (lastOp'.op = "set_request_limit" /\ lastOp'.qs = p)
            /\ (lastOp'.op = "next" /\ calls' # <<>>)
              => calls'[1].limit = request_limit[lastOp'.qs]
          ]_vars

\* a QuerySet derived from QuerySet 1 yields raw records while QuerySet 1 does not,
\* has just fetched a page of its own size during iteration, and QuerySet 1 has
\* been given another request_limit since
C30_Witness ==
    \E t \in qsLive \ {1} :
        /\ iterator_class[t] = "ValuesIterator" /\ iterator_class[1] = "ModelIterator"
        /\ request_limit[t] = default_request_limit
        /\ request_limit[1] # default_request_limit
        /\ lastOp.op = "next" /\ lastOp.qs = t /\ lastOp.err = "none"
        /\ calls # <<>> /\ calls[1].limit = default_request_limit

====
